---- MODULE Spec2Model ----
(***************************************************************************)
(* Model of the lev agent/tool orchestration engine:                       *)
(*   Controller.run  (src/lev/controller.py)   - Workflow.ask              *)
(*   Introspector    (src/lev/controller.py)   - validate / plan_next      *)
(*   McpHost.step    (src/lev/mcp/mcp_host.py) - Host.step                 *)
(*   ToolsAgent      (src/lev/agents/tool.py)  - ToolAgent.propose         *)
(*   ChatHistory     (src/lev/core/chat_history.py)                        *)
(*   McpClient       (src/lev/core/mcp.py)                                 *)
(*                                                                         *)
(* Python values are encoded as follows.  A `str | None` value is a TLA+   *)
(* string, the value None being the reserved string NoneVal, which is not  *)
(* in any alphabet the model draws text from.  A `list | None` value that  *)
(* the code never sets to an empty list is a sequence, None being <<>>.    *)
(***************************************************************************)
EXTENDS Integers, Sequences, FiniteSets, TLC

\* ------------------------------------------------------------------ bounds
\* Largest value of McpHostConfig.max_steps explored (0..HostMaxSteps).
HostMaxSteps == 2
\* Largest value of Controller.max_steps explored (0..CtrlMaxSteps).
CtrlMaxSteps == 2
\* Largest number of tool calls in one model response.
MaxCalls == 2
\* Largest number of tool calls the model requests in one run.
MaxIds == 2
\* Largest number of exchanges in a transcript handed to run's final scan.
MaxScan == 3
\* Largest number of calls made on one McpClient.
MaxOps == 3
\* Largest number of calls made on one Introspector.
MaxGates == 3
\* Largest number of exchanges in a transcript an introspector call reads.
MaxTrace == 1
\* Largest max_steps and max_retries_per_call of a ReasoningAgent, and the
\* largest number of tool calls in one response of its provider.
MaxRounds == 1
MaxRetries == 2
MaxBatch == 1
\* Largest number of characters in the text a tool returns.
MaxText == 5
\* Largest number of content blocks in one tool response.
MaxBlocks == 2
\* Largest number of weighted scorers in one ScoreFunction.
MaxScorers == 2
\* Largest number of invocation records handed to ToolCallCountScorer.
MaxRecords == 3
\* Largest number of evals in one run.
MaxEvals == 3
\* Largest value of max_steps explored for the inline-introspection host.
MaxDepth == 3

\* ------------------------------------------------------------ value encoding
NoneVal == "<None>"

\* Python truthiness of a `str | None` value.
Truthy(s) == s # NoneVal /\ s # ""

\* Python `x or d` on a `str | None` value.
OrElse(s, d) == IF Truthy(s) THEN s ELSE d

\* MessageRole (src/lev/common/roles.py)
USER == "user"
DEVELOPER == "developer"
ASSISTANT == "assistant"
SYSTEM == "system"
TOOL == "tool"

\* The agent's system prompt and the question of the eval.
SystemPrompt == "You are a tool agent."
\* The system prompt of the introspector's agent.
IntrospectorPrompt == "You are an introspective planner."
Question == "What is 2+3?"

\* Content of a tools-free model response (adapters turn "" into None) and
\* of a response that carries tool calls.
Contents == {NoneVal, "hi"}
ToolContents == {NoneVal}
\* Messages of the exceptions adapters, registry and clients can raise;
\* str(e) of an exception constructed without arguments is "".
ErrMsgs == {"", "boom"}

\* ------------------------------------------------------- McpClientRegistry
\* McpClientRegistry._servers: the names of the registered servers, in
\* insertion order (a dict keeps the position of a key that is assigned
\* again).
VARIABLE servers

\* Tools the session of each server lists once it is connected.
ServerTools == [fs |-> {"read_file"}, web |-> {"read_file", "add"}]

\* McpClientRegistry.register_server: self._servers[config.name] = McpClient(config)
register_server(reg, name) ==
    IF \E i \in 1..Len(reg) : reg[i] = name THEN reg ELSE Append(reg, name)

\* McpClientRegistry.from_config / from_dict: register the servers in order.
RECURSIVE from_config(_)
from_config(names) ==
    IF names = <<>> THEN <<>>
    ELSE register_server(from_config(SubSeq(names, 1, Len(names) - 1)), names[Len(names)])

\* get_all_clients(), the tools the clients' sessions list, and the tool
\* names the model asks for (those of the registered servers).
Clients == servers
ClientSet == {Clients[i] : i \in 1..Len(Clients)}
Offers == [c \in ClientSet |-> ServerTools[c]]
ToolNames == UNION {Offers[c] : c \in ClientSet}
Arguments == [path |-> "a.txt"]

\* --------------------------------------------------------------- ChatHistory
Message(role, content, tcs, tcid) ==
    [role |-> role, content |-> content, tool_calls |-> tcs, tool_call_id |-> tcid]

add_system_message(msgs, content) ==
    Append(msgs, Message(SYSTEM, content, <<>>, NoneVal))

\* Variant that overwrites the last message instead of appending.
AddAssistantOverwrites(msgs, content) ==
    Append(SubSeq(msgs, 1, Len(msgs) - 1), Message(ASSISTANT, content, <<>>, NoneVal))

add_assistant_message(msgs, content) ==
    Append(msgs, Message(ASSISTANT, content, <<>>, NoneVal))

add_assistant_tool_call_message(msgs, content, tcs) ==
    Append(msgs, Message(ASSISTANT, content, tcs, NoneVal))

\* Variant with the two arguments swapped.
AddToolResponseSwapped(msgs, tcid, content) ==
    Append(msgs, Message(TOOL, tcid, <<>>, content))

add_tool_response_message(msgs, tcid, content) ==
    Append(msgs, Message(TOOL, content, <<>>, tcid))

\* ChatHistory.add_message(content, role): appends one message with the
\* supplied role and content.
add_message(msgs, content, role) ==
    Append(msgs, Message(role, content, <<>>, NoneVal))

add_tool_call(log, server_name, tool_name, arguments, result) ==
    Append(log, [tool_name |-> tool_name, arguments |-> arguments,
                 result |-> result, server_name |-> server_name])


\* ------------------------------------------------------------- tool results
\* Normalized results McpClient.call_tool returns; `error` is NoneVal when
\* the mapping has no "error" key.
Result(success, error) == [success |-> success, error |-> error]
ServerResults == {Result(TRUE, NoneVal), Result(FALSE, "no such file")}
\* What one invocation on a client does: return a result or raise.
Outcome(raises, result) == [raises |-> raises, result |-> result]
Outcomes == {Outcome(FALSE, r) : r \in ServerResults} \cup {Outcome(TRUE, Result(FALSE, "boom"))}

\* json.dumps of a result mapping.
json_dumps(result) ==
    "{\"success\": " \o (IF result.success THEN "true" ELSE "false")
      \o (IF result.error = NoneVal THEN "" ELSE ", \"error\": \"" \o result.error \o "\"")
      \o "}"

\* json.dumps of a call's arguments mapping.
json_dumps_args(arguments) == "{\"path\": \"" \o arguments.path \o "\"}"

\* ModelResponse.tool_calls entry (ToolCall) and its OpenAI form.
ToolCall(id, name) == [id |-> id, name |-> name, arguments |-> Arguments]

\* Variant that lists the calls last-first.
RECURSIVE ToOpenAiReversed(_)
ToOpenAiReversed(tool_calls) ==
    IF tool_calls = <<>> THEN <<>>
    ELSE ToOpenAiReversed(Tail(tool_calls))
         \o <<[id |-> Head(tool_calls).id, type |-> "function",
               function |-> [name |-> Head(tool_calls).name,
                             arguments |-> json_dumps_args(Head(tool_calls).arguments)]]>>

RECURSIVE _to_openai_tool_calls(_)
_to_openai_tool_calls(tool_calls) ==
    IF tool_calls = <<>> THEN <<>>
    ELSE <<[id |-> Head(tool_calls).id, type |-> "function",
            function |-> [name |-> Head(tool_calls).name,
                          arguments |-> json_dumps_args(Head(tool_calls).arguments)]]>>
         \o _to_openai_tool_calls(Tail(tool_calls))

ModelResponse(content, tool_calls) == [content |-> content, tool_calls |-> tool_calls]

\* ----------------------------------------------------------------- McpClient
\* McpClient.list_tools: nothing unless connected.
list_tools(conn, c) == IF conn[c] THEN Offers[c] ELSE {}

\* Clients on which _execute_single_tool would invoke `name`.
Matching(conn, name) == {c \in ClientSet : name \in list_tools(conn, c)}

\* McpClientRegistry.find_tool_server_name: the first client, in
\* registration order, whose list_tools contains the tool; None otherwise.
RECURSIVE FindFrom(_, _, _)
FindFrom(conn, name, i) ==
    IF i > Len(Clients) THEN NoneVal
    ELSE IF name \in list_tools(conn, Clients[i]) THEN Clients[i]
    ELSE FindFrom(conn, name, i + 1)

find_tool_server_name(conn, name) == FindFrom(conn, name, 1)

\* McpHost._execute_single_tool: first client that lists the tool and whose
\* call returns; a client that raises is skipped; "not found" otherwise.
RECURSIVE ExecFrom(_, _, _, _)
ExecFrom(conn, name, out, i) ==
    IF i > Len(Clients)
    THEN Result(FALSE, "Tool " \o name \o " not found in any connected MCP client")
    ELSE IF name \in list_tools(conn, Clients[i]) /\ ~out[Clients[i]].raises
         THEN out[Clients[i]].result
         ELSE ExecFrom(conn, name, out, i + 1)

_execute_single_tool(conn, name, out) == ExecFrom(conn, name, out, 1)

\* ---------------------------------------------------------------------- Turn
ToolError(tool_call_id, server_name, tool_name, error) ==
    [tool_call_id |-> tool_call_id, server_name |-> server_name,
     tool_name |-> tool_name, error |-> error]

\* Turn.tool_errors is a non-empty list or None (<<>>).
Turn(content, had_tools, tool_errors, fatal_error) ==
    [content |-> content, had_tools |-> had_tools,
     tool_errors |-> tool_errors, fatal_error |-> fatal_error]

MaxStepsError(n) == "Max steps (" \o ToString(n) \o ") reached with pending tool calls"


\* ------------------------------------------------------------ model replies
\* Ids the model producer assigns: unique within a transcript.
CallId(n) == "call_" \o ToString(n)

\* Tool-call lists of length n whose ids start at nid.
RECURSIVE CallSeqs(_, _)
CallSeqs(nid, n) ==
    IF n = 0 THEN {<<>>}
    ELSE {<<ToolCall(CallId(nid), name)>> \o rest :
            name \in ToolNames, rest \in CallSeqs(nid + 1, n - 1)}

Min(a, b) == IF a < b THEN a ELSE b

\* Responses chat_complete can return when nid is the next unused id.
ModelResponses(nid) ==
    {ModelResponse(c, <<>>) : c \in Contents}
    \cup UNION {{ModelResponse(c, tcs) : c \in ToolContents, tcs \in CallSeqs(nid, n)} :
                 n \in 1..Min(MaxCalls, MaxIds + 1 - nid)}

\* --------------------------------------------------------------- Introspector
Absent == "<absent>"

\* json.loads of an introspector reply: kind is "dict", "list" or "error"
\* (JSONDecodeError); a key the object lacks is Absent, a JSON null NoneVal.
Decision(kind, valid, followup_question, cont, next_prompt) ==
    [kind |-> kind, valid |-> valid, followup_question |-> followup_question,
     continue |-> cont, next_prompt |-> next_prompt]

json_loads(text) ==
    CASE text = "{}" -> Decision("dict", Absent, Absent, Absent, Absent)
      [] text = "{\"valid\": true}" -> Decision("dict", "true", Absent, Absent, Absent)
      [] text = "{\"valid\": false}" -> Decision("dict", "false", Absent, Absent, Absent)
      [] text = "{\"valid\": false, \"followup_question\": \"Be precise.\"}"
            -> Decision("dict", "false", "Be precise.", Absent, Absent)
      [] text = "{\"valid\": false, \"followup_question\": null}"
            -> Decision("dict", "false", NoneVal, Absent, Absent)
      [] text = "{\"continue\": false}" -> Decision("dict", Absent, Absent, "false", Absent)
      [] text = "{\"continue\": true}" -> Decision("dict", Absent, Absent, "true", Absent)
      [] text = "{\"continue\": true, \"next_prompt\": \"List the directory.\"}"
            -> Decision("dict", Absent, Absent, "true", "List the directory.")
      [] text = "{\"continue\": true, \"next_prompt\": null}"
            -> Decision("dict", Absent, Absent, "true", NoneVal)
      [] text = "[]" -> Decision("list", Absent, Absent, Absent, Absent)
      [] OTHER -> Decision("error", Absent, Absent, Absent, Absent)

\* dict.get(key, default) on a field of a decision.
Get(v, default) == IF v = Absent THEN default ELSE v

\* What the introspector's agent does on message(): raise or return content.
Reply(raises, content) == [raises |-> raises, content |-> content]

ValidateReplies ==
    {Reply(TRUE, "boom")}
    \cup {Reply(FALSE, c) : c \in {NoneVal, "not json", "[]", "{\"valid\": true}",
            "{\"valid\": false, \"followup_question\": \"Be precise.\"}",
            "{\"valid\": false, \"followup_question\": null}"}}

PlanReplies ==
    {Reply(TRUE, "boom")}
    \cup {Reply(FALSE, c) : c \in {NoneVal, "not json", "[]", "{\"continue\": false}", "{\"continue\": true}",
            "{\"continue\": true, \"next_prompt\": \"List the directory.\"}",
            "{\"continue\": true, \"next_prompt\": null}"}}

\* Introspector.validate on the reply of its agent.
Verdict(valid, followup) == [valid |-> valid, followup |-> followup]

\* Variant that fails closed.
ValidateFailClosed(reply) ==
    IF reply.raises THEN Verdict(FALSE, "Please provide more details.")
    ELSE LET decision == json_loads(OrElse(reply.content, "{}")) IN
         IF decision.kind # "dict" THEN Verdict(FALSE, "Please provide more details.")
         ELSE IF Get(decision.valid, "true") # "true"
              THEN Verdict(FALSE, Get(decision.followup_question, "Please provide more details."))
              ELSE Verdict(TRUE, Absent)

validate(reply) ==
    IF reply.raises THEN Verdict(TRUE, Absent)
    ELSE LET decision == json_loads(OrElse(reply.content, "{}")) IN
         IF decision.kind # "dict" THEN Verdict(TRUE, Absent)
         ELSE IF Get(decision.valid, "true") # "true"
              THEN Verdict(FALSE, Get(decision.followup_question, "Please provide more details."))
              ELSE Verdict(TRUE, Absent)

\* Introspector.plan_next on the reply of its agent.
Plan(cont, next_prompt) == [continue |-> cont, next_prompt |-> next_prompt]

plan_next(reply) ==
    IF reply.raises THEN Plan(FALSE, Absent)
    ELSE LET decision == json_loads(OrElse(reply.content, "{}")) IN
         IF decision.kind # "dict" THEN Plan(FALSE, Absent)
         ELSE Plan(Get(decision.continue, "false") = "true",
                   Get(decision.next_prompt, NoneVal))


\* --------------------------------------------------------------------- state
VARIABLES
    messages,            \* agent.chat_history.messages
    history_tool_calls,  \* agent.chat_history.tool_calls (invocation log)
    is_initialized,      \* ToolsAgent._is_initialized
    connected,           \* McpClient._connected, per client
    host_max_steps,      \* McpHost.config.max_steps
    ctrl_max_steps,      \* Controller.max_steps
    pc,                  \* position of Controller.run / McpHost.step
    done, role, prompt,  \* locals of Controller.run
    iter,                \* iterations of Controller.run's for loop completed
    turn,                \* Turn returned by the last McpHost.step
    answer,              \* value returned by Controller.run
    intro_reply,         \* what the introspector's agent did in the last gate
    model_resp, counter, had_tools, all_tool_errors,  \* locals of McpHost.step
    tool_errors, tc_idx, \* locals of McpHost._execute_tool_calls
    next_id,             \* next tool-call id the model will assign
    exc,                 \* exception in flight to step's handler
    step_calls,          \* calls of McpHost.step made by this run
    step_base,           \* len(messages) when the current step was called
    step_base_inv,       \* len(chat_history.tool_calls) at that moment
    invoke_log,          \* len(messages) at each model invocation of the step
    resp_log,            \* responses the model returned in the step
    dispatch_log,        \* tool calls dispatched in the step
    raise_snapshot,      \* messages at the moment the exception was raised
    client,              \* one McpClient: _connected, session, contexts, instructions
    client_call,         \* what the last call on that client did
    entered,             \* contexts entered on which __aexit__ was not yet called
    tool_response,       \* what session.call_tool returned to the last call_tool
    final_result,        \* what that call_tool returned
    weighted_scorers,    \* ScoreFunction.weighted_scorers: (weight, scorer) pairs
    scorer_values,       \* Score.value of each active scorer, in the order called
    overall,             \* the Score.value ScoreFunction.score returned
    ctx,                 \* ScoringContext: content of the assistant messages
    score_exc,           \* type of the exception ScoreFunction.score raised
    calls,               \* ToolCallCountScorer.calls: (tool, constraint) in key order
    order_matters,       \* ToolCallCountScorer.order_matters
    call_sequence,       \* tool_name of each record of ctx.tool_calls
    count_score,         \* the Score.value ToolCallCountScorer.score returned
    run_pc,              \* position of run_host_evals / run_evals
    num_evals,           \* len(evals)
    eval_idx,            \* the eval the loop is at (1-based)
    results,             \* results
    cleaned,             \* host.cleanup() has been called
    h_pc,                \* position of host.McpHost.prompt
    introspector_set,    \* McpHost.introspector is not None
    inline_max_steps,    \* McpHost.config.max_steps of that host
    depth,               \* local depth of prompt
    prompt_text,         \* local prompt_text of prompt
    prompt_role,         \* local role of prompt
    latest_resp,         \* local model_resp of prompt
    journal,             \* McpHost.journal: the events logged, in order
    agent_calls,         \* (role, message) of each agent.message call
    nudges,              \* next_prompt of each decision continue with next_prompt
    final_answer,        \* what prompt returned
    r_pc,                \* position of ReasoningAgent.message
    r_max_steps,         \* ReasoningAgent.max_steps
    step_count,          \* local step_count of message
    response,            \* local response of message
    r_messages,          \* the agent's chat_history.messages: (role, content)
    inner_calls,         \* calls of inner_provider.chat_complete in this message
    r_failed,            \* message went through its except branch
    intro_history,       \* chat_history of the introspector's agent
    intro_start,         \* its messages when the last gate called message()
    intro_result,        \* what the last gate returned, and which gate
    intro_calls,         \* validate / plan_next calls made so far
    tool_path,           \* who invoked the tool: "agent", "host" or "none"
    client_result,       \* what McpClient.call_tool returned
    recorded,            \* the result passed to chat_history.add_tool_call
    shown,               \* the result the model is shown for the call
    counted,             \* the failure the caller counts for the call
    t_pc,                \* position inside ReasoningAgent.message
    t_max_steps,         \* ReasoningAgent.max_steps
    t_max_retries,       \* ReasoningAgent.max_retries_per_call
    t_steps,             \* step_count of message
    t_response,          \* ids of the tool calls of the current response
    t_history,           \* chat_history.messages of the ReasoningAgent
    t_k,                 \* index of the call being executed in the batch
    t_retries,           \* retries of _execute_single_tool_with_introspection
    t_fresh,             \* next id the provider gives to a tool call
    t_invoked            \* outcomes of call_tool for the current requested call

client_vars == <<client, client_call, entered, tool_response, final_result>>
score_vars == <<weighted_scorers, scorer_values, overall, ctx, score_exc>>
count_vars == <<calls, order_matters, call_sequence, count_score>>
runner_vars == <<run_pc, num_evals, eval_idx, results, cleaned>>
round_vars == <<t_pc, t_max_steps, t_max_retries, t_steps, t_response, t_history, t_k,
                t_retries, t_fresh, t_invoked>>
invoke_vars == <<tool_path, client_result, recorded, shown, counted>>
intro_vars == <<intro_history, intro_start, intro_result, intro_calls>>
reason_vars == <<r_pc, r_max_steps, step_count, response, r_messages, inner_calls, r_failed>>
prompt_vars == <<h_pc, introspector_set, inline_max_steps, depth, prompt_text, prompt_role,
                 latest_resp, journal, agent_calls, nudges, final_answer>>
\* The library variables outside one group.
not_client_vars == <<score_vars, count_vars, runner_vars, prompt_vars, reason_vars, intro_vars, invoke_vars, round_vars>>
not_score_vars == <<client_vars, count_vars, runner_vars, prompt_vars, reason_vars, intro_vars, invoke_vars, round_vars>>
not_count_vars == <<client_vars, score_vars, runner_vars, prompt_vars, reason_vars, intro_vars, invoke_vars, round_vars>>
not_runner_vars == <<client_vars, score_vars, count_vars, prompt_vars, reason_vars, intro_vars, invoke_vars, round_vars>>
not_prompt_vars == <<client_vars, score_vars, count_vars, runner_vars, reason_vars, intro_vars, invoke_vars, round_vars>>
not_reason_vars == <<client_vars, score_vars, count_vars, runner_vars, prompt_vars, intro_vars, invoke_vars, round_vars>>
not_intro_vars == <<client_vars, score_vars, count_vars, runner_vars, prompt_vars, reason_vars, invoke_vars, round_vars>>
not_invoke_vars == <<client_vars, score_vars, count_vars, runner_vars, prompt_vars, reason_vars, intro_vars, round_vars>>
not_round_vars == <<client_vars, score_vars, count_vars, runner_vars, prompt_vars, reason_vars, intro_vars, invoke_vars>>
lib_vars == <<client_vars, score_vars, count_vars, runner_vars, prompt_vars, reason_vars, intro_vars, invoke_vars, round_vars>>

host_vars == <<servers, messages, history_tool_calls, is_initialized, connected, host_max_steps,
          ctrl_max_steps, pc, done, role, prompt, iter, turn, answer, model_resp,
          counter, had_tools, all_tool_errors, tool_errors, tc_idx, next_id, exc,
          step_calls, step_base, step_base_inv, invoke_log, resp_log, dispatch_log,
          raise_snapshot, intro_reply>>

vars == <<lib_vars, host_vars>>

config_vars == <<servers, host_max_steps, ctrl_max_steps>>
ctrl_vars == <<done, role, prompt, iter, answer, intro_reply>>
step_vars == <<model_resp, counter, had_tools, all_tool_errors>>
exec_vars == <<tool_errors, tc_idx>>
obs_vars == <<step_calls, step_base, step_base_inv, invoke_log, resp_log, dispatch_log>>

\* The agent's own mcp_clients (the servers the eval allows), in order.
AgentClients == <<"fs">>

NoExc == [raised |-> FALSE, msg |-> ""]
Raised(msg) == [raised |-> TRUE, msg |-> msg]
NoTurn == Turn(NoneVal, FALSE, <<>>, NoneVal)
NoAnswer == "<running>"
\* No introspector gate has run since the last call of host.step.
NoReply == [gate |-> "none", raises |-> FALSE, content |-> NoneVal]
GateReply(gate, reply) == [gate |-> gate, raises |-> reply.raises, content |-> reply.content]

\* ----------------------------------------------------------------- McpClient
ClientName == "fs"

\* McpClient.__init__
NewClient ==
    [connected |-> FALSE, session |-> NoneVal, stdio_context |-> NoneVal,
     session_context |-> NoneVal, instructions |-> NoneVal]

\* What a call on the client did: the method, whether it raised, the text
\* and the chained cause of what it raised, the stage connect got to, the
\* __aexit__ calls it made, in order, and those of them that raised; n is
\* the number of calls made so far.
ClientCall(op, raised, msg, cause, stage, exits, exit_errors, n) ==
    [op |-> op, raised |-> raised, msg |-> msg, cause |-> cause, stage |-> stage,
     exits |-> exits, exit_errors |-> exit_errors, n |-> n]
NoCall == ClientCall("none", FALSE, NoneVal, NoneVal, "none", <<>>, {}, 0)

\* JSON values, all of one shape: a scalar has a type and a text, a list
\* has items, a dict has fields, a set of <<key, value>>.
JAtom(t, text) == [t |-> t, s |-> text, items |-> <<>>, fields |-> {}]
JList(items) == [t |-> "list", s |-> "", items |-> items, fields |-> {}]
JDict(fields) == [t |-> "dict", s |-> "", items |-> <<>>, fields |-> fields]
JNull == JAtom("null", "")
JTrue == JAtom("bool", "true")
JFalse == JAtom("bool", "false")

\* key in d
HasKey(d, key) == \E f \in d.fields : f[1] = key
\* d.get(key, default)
DictGet(d, key, default) ==
    IF HasKey(d, key) THEN (CHOOSE f \in d.fields : f[1] = key)[2] ELSE default

\* The content blocks a server sends: TextContent, and one that is not.
TextContent(text) == [kind |-> "text", text |-> text]
ImageContent == [kind |-> "image", text |-> ""]
ToolTexts == {"{\"rows\": 3}", "{\"success\": false}", "[1, 2]", "7", "plain text"}
ContentBlocks == {TextContent(t) : t \in ToolTexts} \cup {ImageContent}

\* json.loads on the text of a block; ok is FALSE for JSONDecodeError.
loads(text) ==
    CASE text = "{\"rows\": 3}" ->
           [ok |-> TRUE, value |-> JDict({<<"rows", JAtom("int", "3")>>})]
      [] text = "{\"success\": false}" ->
           [ok |-> TRUE, value |-> JDict({<<"success", JFalse>>})]
      [] text = "[1, 2]" ->
           [ok |-> TRUE, value |-> JList(<<JAtom("int", "1"), JAtom("int", "2")>>)]
      [] text = "7" -> [ok |-> TRUE, value |-> JAtom("int", "7")]
      [] OTHER -> [ok |-> FALSE, value |-> JNull]

\* CallToolResult: structuredContent (None is JNull) and content.
CallToolResult(structuredContent, content) ==
    [structuredContent |-> structuredContent, content |-> content]
StructuredContents ==
    {JNull, JDict({}), JDict({<<"result", JAtom("int", "3")>>}),
     JDict({<<"rows", JAtom("int", "3")>>})}
ToolResponses ==
    {CallToolResult(sc, c) :
        sc \in StructuredContents,
        c \in UNION {[1..n -> ContentBlocks] : n \in 0..MaxBlocks}}

\* call_tool's loop over several content items: items that are not
\* TextContent are passed over.
RECURSIVE ParsedItems(_)
ParsedItems(content) ==
    IF content = <<>> THEN <<>>
    ELSE LET item == Head(content)
         IN (IF item.kind = "text"
             THEN <<IF loads(item.text).ok THEN loads(item.text).value
                    ELSE JAtom("str", item.text)>>
             ELSE <<>>) \o ParsedItems(Tail(content))

NoResponse ==
    JDict({<<"success", JFalse>>, <<"error", JAtom("str", "No response from server")>>})

\* McpClient.call_tool, from the server's result to final_result.
Normalized(result) ==
    LET sc == result.structuredContent
        content == result.content
    IN IF sc.t = "dict" /\ sc.fields # {}
       THEN JDict({<<"result", DictGet(sc, "result", sc)>>, <<"success", JTrue>>})
       ELSE IF Len(content) > 1
       THEN JDict({<<"result", JList(ParsedItems(content))>>, <<"success", JTrue>>})
       ELSE IF Len(content) = 1 /\ content[1].kind = "text"
       THEN LET parsed == loads(content[1].text)
            IN IF ~parsed.ok
               THEN JDict({<<"content", JAtom("str", content[1].text)>>, <<"success", JTrue>>})
               ELSE IF parsed.value.t = "list"
               THEN JDict({<<"result", parsed.value>>, <<"success", JTrue>>})
               ELSE IF parsed.value.t = "dict"
               THEN IF HasKey(parsed.value, "success") THEN parsed.value
                    ELSE JDict(parsed.value.fields \cup {<<"success", JTrue>>})
               ELSE JDict({<<"result", parsed.value>>, <<"success", JTrue>>})
       ELSE NoResponse

ClientIdle ==
    /\ client = NewClient /\ client_call = NoCall /\ entered = {}
    /\ tool_response = CallToolResult(JNull, <<>>)
    /\ final_result = JNull
\* ------------------------------------------------------------- scoring
\* Score.value is a float; the model holds it in tenths, and a quotient as
\* the pair it is the quotient of.
Scale == 10
Value(num, den) == [returned |-> TRUE, num |-> num, den |-> den]
NotScored == [returned |-> FALSE, num |-> 0, den |-> 1]

\* json.loads on the judge's reply: the kind of value, whether it has a
\* "score" key, and that key's value.
judge_loads(text) ==
    CASE text = "{}" -> [kind |-> "dict", has_score |-> FALSE, score |-> 0]
      [] text = "{\"score\": 0.5}" -> [kind |-> "dict", has_score |-> TRUE, score |-> 5]
      [] text = "{\"score\": 1.0}" -> [kind |-> "dict", has_score |-> TRUE, score |-> 10]
      [] text = "{\"score\": 3}" -> [kind |-> "dict", has_score |-> TRUE, score |-> 30]
      [] text = "[]" -> [kind |-> "list", has_score |-> FALSE, score |-> 0]
      [] OTHER -> [kind |-> "error", has_score |-> FALSE, score |-> 0]

\* What the judge model does on chat_complete: raise or return content.
JudgeReplies ==
    {[raises |-> TRUE, content |-> NoneVal]}
    \cup {[raises |-> FALSE, content |-> c] :
             c \in {NoneVal, "not json", "[]", "{}", "{\"score\": 0.5}",
                    "{\"score\": 1.0}", "{\"score\": 3}"}}

\* LLMCritiqueScorer.score: Score.value for a reply of the judge.
critique_score(reply) ==
    IF reply.raises \/ reply.content = NoneVal THEN 0
    ELSE LET result == judge_loads(reply.content)
         IN IF result.kind # "dict" THEN 0
            ELSE IF result.has_score THEN result.score ELSE 0

\* ScoringContext.chat_history: the content of its assistant messages (the
\* message that carries tool calls has content None).
ScoringContexts ==
    {[assistant_contents |-> c] : c \in {<<>>, <<"hi">>, <<NoneVal, "hi">>}}

\* The message that carries tool calls makes the scorer raise TypeError
\* before its try block: get_assistant_messages builds
\* ParticipantMessage(**msg) from a dict with a tool_calls key, and
\* "\n".join(msg.content ...) meets a content that is None.
JoinRaises(c) == \E i \in 1..Len(c.assistant_contents) : c.assistant_contents[i] = NoneVal

\* LLMExtractValueScorer.score: the values it can return on a context; its
\* try block turns a failure of the extraction into 0.0.
extract_score(c) ==
    IF c.assistant_contents = <<>> THEN {0} ELSE {0, Scale}

\* The values a scorer of a kind can return: ContainsStringScorer 0.0 or
\* 1.0, LLMCritiqueScorer what the judge's reply gives.
ScorerKinds == {"contains_string", "critique", "extract_value"}
ScorerValues(kind) ==
    IF kind = "contains_string" THEN {0, Scale}
    ELSE IF kind = "critique" THEN {critique_score(r) : r \in JudgeReplies}
    ELSE UNION {extract_score(c) : c \in ScoringContexts}

\* Whether scorer.score raises on the context, and how it returns if not.
ScorerRaises(kind, c) == kind = "extract_value" /\ JoinRaises(c)
ScorerReturns(kind, c) ==
    IF kind = "extract_value" THEN extract_score(c) ELSE ScorerValues(kind)

\* Position of the first active scorer whose score raises, 0 if none does.
RECURSIVE FirstRaising(_, _, _)
FirstRaising(active, c, i) ==
    IF i > Len(active) THEN 0
    ELSE IF ScorerRaises(active[i].scorer, c) THEN i
    ELSE FirstRaising(active, c, i + 1)

Weights == {-1, 0, 1, 2}
WeightedScorer(weight, scorer) == [weight |-> weight, scorer |-> scorer]
ScorerLists ==
    UNION {[1..n -> {WeightedScorer(w, k) : w \in Weights, k \in ScorerKinds}] :
              n \in 0..MaxScorers}

\* [(w, s) for w, s in self.weighted_scorers if w > 0]
RECURSIVE active_scorers(_)
active_scorers(ws) ==
    IF ws = <<>> THEN <<>>
    ELSE (IF Head(ws).weight > 0 THEN <<Head(ws)>> ELSE <<>>) \o active_scorers(Tail(ws))

\* sum(w for w, _ in scorers)
RECURSIVE total_weight(_)
total_weight(ws) == IF ws = <<>> THEN 0 ELSE Head(ws).weight + total_weight(Tail(ws))

\* subtotal after the loop, for the values the scorers returned
RECURSIVE subtotal(_, _)
subtotal(ws, values) ==
    IF ws = <<>> THEN 0
    ELSE Head(ws).weight * Head(values) + subtotal(Tail(ws), Tail(values))

ScoreIdle ==
    /\ weighted_scorers = <<>> /\ scorer_values = <<>> /\ overall = NotScored
    /\ ctx = [assistant_contents |-> <<>>]
    /\ score_exc = NoneVal

\* ------------------------------------------------- ToolCallCountScorer
\* One constraint of calls: which of the keys exact, min, max it has.
Constraint(has_exact, exact, has_min, min, has_max, max) ==
    [has_exact |-> has_exact, exact |-> exact, has_min |-> has_min, min |-> min,
     has_max |-> has_max, max |-> max]
Constraints ==
    {Constraint(TRUE, 0, FALSE, 0, FALSE, 0), Constraint(TRUE, 1, FALSE, 0, FALSE, 0),
     Constraint(FALSE, 0, TRUE, 1, FALSE, 0), Constraint(FALSE, 0, FALSE, 0, TRUE, 1),
     Constraint(TRUE, 0, TRUE, 1, FALSE, 0), Constraint(FALSE, 0, FALSE, 0, FALSE, 0)}

ScoredTools == {"add", "read_file"}
CalledTools == ScoredTools \cup {"search"}
\* calls: a mapping, so no tool twice; its keys keep their order.
CallsConfigs ==
    {cfg \in UNION {[1..n -> [tool : ScoredTools, spec : Constraints]] : n \in 0..2} :
        \A i, j \in 1..Len(cfg) : i # j => cfg[i].tool # cfg[j].tool}
CallSequences == UNION {[1..n -> CalledTools] : n \in 0..MaxRecords}

\* call_hist.get(tool, 0)
Count(seq, tool) == Cardinality({i \in 1..Len(seq) : seq[i] = tool})

\* [tool for tool in call_sequence if tool in expected_tools]
RECURSIVE filtered_sequence(_, _)
filtered_sequence(seq, expected) ==
    IF seq = <<>> THEN <<>>
    ELSE (IF Head(seq) \in expected THEN <<Head(seq)>> ELSE <<>>)
           \o filtered_sequence(Tail(seq), expected)

\* The branch for no tool calls: a positive exact or min fails.
NoCallsOk(cfg) ==
    \A i \in 1..Len(cfg) :
       /\ ~(cfg[i].spec.has_exact /\ cfg[i].spec.exact > 0)
       /\ ~(cfg[i].spec.has_min /\ cfg[i].spec.min > 0)

\* The loop over the count constraints.
CountLoopOk(cfg, seq) ==
    \A i \in 1..Len(cfg) :
       LET spec == cfg[i].spec
           actual_count == Count(seq, cfg[i].tool)
       IN IF spec.has_exact THEN actual_count = spec.exact
          ELSE /\ ~(spec.has_min /\ actual_count < spec.min)
               /\ ~(spec.has_max /\ actual_count > spec.max)

\* The loop over expected_tools: the filtered sequence starts with them.
OrderLoopOk(cfg, seq) ==
    LET filtered == filtered_sequence(seq, {cfg[i].tool : i \in 1..Len(cfg)})
    IN \A i \in 1..Len(cfg) : i <= Len(filtered) /\ filtered[i] = cfg[i].tool

\* ToolCallCountScorer.score: Score.value in tenths.
tool_call_count_score(cfg, order, seq) ==
    IF seq = <<>> THEN (IF NoCallsOk(cfg) THEN Scale ELSE 0)
    ELSE IF ~CountLoopOk(cfg, seq) THEN 0
    ELSE IF order /\ ~OrderLoopOk(cfg, seq) THEN 0
    ELSE Scale

NoScore == [returned |-> FALSE, value |-> 0]
CountIdle ==
    /\ calls = <<>> /\ order_matters = FALSE /\ call_sequence = <<>>
    /\ count_score = NoScore

\* -------------------------------------------------------------- runner
RunnerIdle ==
    /\ run_pc = "idle" /\ num_evals = 0 /\ eval_idx = 1 /\ results = <<>>
    /\ cleaned = FALSE

\* --------------------------------------- host.McpHost.prompt (inline gate)
\* ModelResponse of the agent: content, and whether it carries tool calls.
InlineResponse(content, has_tools) == [content |-> content, has_tools |-> has_tools]
InlineResponses ==
    {InlineResponse(c, FALSE) : c \in Contents} \cup {InlineResponse(NoneVal, TRUE)}

\* The decision dict _introspect returns; next_prompt is Absent when the
\* dict has no such key.
InlineDecision(cont, reason, next_prompt) ==
    [continue |-> cont, reason |-> reason, next_prompt |-> next_prompt]

\* What the introspector's agent does on message().
InlineReplies ==
    {Reply(TRUE, "boom")}
    \cup {Reply(FALSE, c) :
             c \in {NoneVal, "not json", "{\"continue\": false}", "{\"continue\": true}",
                    "{\"continue\": true, \"next_prompt\": \"Try again.\"}"}}

\* McpHost._introspect: the decision for a reply of the introspector, and
\* the event it logs.
_introspect(has_introspector, reply) ==
    IF ~has_introspector
    THEN [decision |-> InlineDecision(FALSE, "no introspector, stopping on answer", Absent),
          event |-> "introspect_decision"]
    ELSE IF reply.raises
    THEN [decision |-> InlineDecision(FALSE, "introspection failed: " \o reply.content, Absent),
          event |-> "introspect_error"]
    ELSE IF reply.content = "not json"
    THEN [decision |-> InlineDecision(FALSE, "introspector returned invalid JSON", Absent),
          event |-> "introspect_error"]
    ELSE IF reply.content = "{\"continue\": true}"
    THEN [decision |-> InlineDecision(TRUE, "no reason provided", NoneVal),
          event |-> "introspect_decision"]
    ELSE IF reply.content = "{\"continue\": true, \"next_prompt\": \"Try again.\"}"
    THEN [decision |-> InlineDecision(TRUE, "no reason provided", "Try again."),
          event |-> "introspect_decision"]
    ELSE [decision |-> InlineDecision(FALSE, "no reason provided", NoneVal),
          event |-> "introspect_decision"]

\* decision.get("next_prompt")
GetNextPrompt(decision) ==
    IF decision.next_prompt = Absent THEN NoneVal ELSE decision.next_prompt

NoInlineResponse == InlineResponse(NoneVal, FALSE)
PromptIdle ==
    /\ h_pc = "idle" /\ introspector_set = FALSE /\ inline_max_steps = 0
    /\ depth = 0 /\ prompt_text = Question /\ prompt_role = USER
    /\ latest_resp = NoInlineResponse
    /\ journal = <<>> /\ agent_calls = <<>> /\ nudges = <<>>
    /\ final_answer = NoAnswer

\* ------------------------------------------------------ ReasoningAgent
ReasonIdle ==
    /\ r_pc = "idle" /\ r_max_steps = 0 /\ step_count = 0
    /\ response = NoInlineResponse
    /\ r_messages = <<>> /\ inner_calls = 0 /\ r_failed = FALSE

\* --------------------------------------------------- Introspector's agent
\* What a gate returned: the gate, valid / continue, followup / next_prompt.
GateResult(gate, ok, text) == [gate |-> gate, ok |-> ok, text |-> text]
NoGateResult == GateResult("none", FALSE, Absent)

\* Agent.__init__ of the introspector's agent, no gate called yet.
IntroIdle ==
    /\ intro_history = [messages |-> add_system_message(<<>>, IntrospectorPrompt),
                        tool_calls |-> <<>>]
    /\ intro_start = <<>>
    /\ intro_result = NoGateResult
    /\ intro_calls = 0

\* ------------------------------------------------------ one tool invocation
\* A result mapping with the keys content, error and success; texts are
\* sequences of characters.
ToolResult(success, has_content, content, has_error, error) ==
    [success |-> success, has_content |-> has_content, content |-> content,
     has_error |-> has_error, error |-> error]
\* {"content": text, "success": True}: McpClient.call_tool on plain text.
TextResult(text) == ToolResult(TRUE, TRUE, text, FALSE, <<>>)
\* {"success": False, "error": text}
FailureResult(text) == ToolResult(FALSE, FALSE, <<>>, TRUE, text)
NoToolResult == ToolResult(TRUE, FALSE, <<>>, FALSE, <<>>)

\* What a caller counts for a call: nothing, or a failure with its error.
Counted(is_error, error) == [is_error |-> is_error, error |-> error]

InvokeIdle ==
    /\ tool_path = "none" /\ client_result = NoToolResult
    /\ recorded = NoToolResult /\ shown = NoToolResult
    /\ counted = Counted(FALSE, <<>>)

\* ------------------------------------- ReasoningAgent with tool-call ids
RoundIdle ==
    /\ t_pc = "idle" /\ t_max_steps = 0 /\ t_max_retries = 0 /\ t_steps = 0
    /\ t_response = <<>> /\ t_history = <<>> /\ t_k = 0 /\ t_retries = 0
    /\ t_fresh = 1 /\ t_invoked = <<>>

\* Every library object outside one group is idle.
NotClientIdle == ScoreIdle /\ CountIdle /\ RunnerIdle /\ PromptIdle /\ ReasonIdle /\ IntroIdle /\ InvokeIdle /\ RoundIdle
NotScoreIdle == ClientIdle /\ CountIdle /\ RunnerIdle /\ PromptIdle /\ ReasonIdle /\ IntroIdle /\ InvokeIdle /\ RoundIdle
NotCountIdle == ClientIdle /\ ScoreIdle /\ RunnerIdle /\ PromptIdle /\ ReasonIdle /\ IntroIdle /\ InvokeIdle /\ RoundIdle
NotRunnerIdle == ClientIdle /\ ScoreIdle /\ CountIdle /\ PromptIdle /\ ReasonIdle /\ IntroIdle /\ InvokeIdle /\ RoundIdle
NotPromptIdle == ClientIdle /\ ScoreIdle /\ CountIdle /\ RunnerIdle /\ ReasonIdle /\ IntroIdle /\ InvokeIdle /\ RoundIdle
NotReasonIdle == ClientIdle /\ ScoreIdle /\ CountIdle /\ RunnerIdle /\ PromptIdle /\ IntroIdle /\ InvokeIdle /\ RoundIdle
NotIntroIdle == ClientIdle /\ ScoreIdle /\ CountIdle /\ RunnerIdle /\ PromptIdle /\ ReasonIdle /\ InvokeIdle /\ RoundIdle
NotInvokeIdle == ClientIdle /\ ScoreIdle /\ CountIdle /\ RunnerIdle /\ PromptIdle /\ ReasonIdle /\ IntroIdle /\ RoundIdle
NotRoundIdle == ClientIdle /\ ScoreIdle /\ CountIdle /\ RunnerIdle /\ PromptIdle /\ ReasonIdle /\ IntroIdle /\ InvokeIdle
LibIdle == ClientIdle /\ ScoreIdle /\ CountIdle /\ RunnerIdle /\ PromptIdle /\ ReasonIdle /\ IntroIdle /\ InvokeIdle /\ RoundIdle

\* Where connect's try block can fail: stdio_context.__aenter__ (process
\* spawn), session_context.__aenter__ (stream setup), a None session,
\* session.initialize(); "ok" is the run that does not fail.
ConnectStages == {"spawn", "stream", "no_session", "initialize", "ok"}

\* The client's fields when connect's try block has got to `stage`.
Reached(cl, stage) ==
    CASE stage = "spawn" -> [cl EXCEPT !.stdio_context = "stdio"]
      [] stage = "stream" ->
           [cl EXCEPT !.stdio_context = "stdio", !.session_context = "session_ctx"]
      [] stage = "no_session" ->
           [cl EXCEPT !.stdio_context = "stdio", !.session_context = "session_ctx",
                      !.session = NoneVal]
      [] stage = "initialize" ->
           [cl EXCEPT !.stdio_context = "stdio", !.session_context = "session_ctx",
                      !.session = "session"]
      [] OTHER ->
           [cl EXCEPT !.stdio_context = "stdio", !.session_context = "session_ctx",
                      !.session = "session", !.instructions = "", !.connected = TRUE]

\* The contexts whose __aenter__ has returned by then.
EnteredAt(stage) ==
    CASE stage = "spawn" -> {}
      [] stage = "stream" -> {"stdio"}
      [] OTHER -> {"stdio", "session_ctx"}

\* Variant that exits the stdio context first.
CleanupExitsStdioFirst(cl) ==
    (IF cl.stdio_context # NoneVal THEN <<"stdio">> ELSE <<>>)
      \o (IF cl.session_context # NoneVal THEN <<"session_ctx">> ELSE <<>>)

\* The __aexit__ calls of _cleanup_contexts, in order.
CleanupExits(cl) ==
    (IF cl.session_context # NoneVal THEN <<"session_ctx">> ELSE <<>>)
      \o (IF cl.stdio_context # NoneVal THEN <<"stdio">> ELSE <<>>)

\* Variant that forgets the stdio context.
CleanupKeepsStdio(cl) ==
    [cl EXCEPT !.session_context = NoneVal, !.instructions = NoneVal, !.session = NoneVal]

\* McpClient._cleanup_contexts: the fields it leaves.
_cleanup_contexts(cl) ==
    [cl EXCEPT !.session_context = NoneVal, !.stdio_context = NoneVal,
               !.instructions = NoneVal, !.session = NoneVal]

SeqRange(q) == {q[i] : i \in 1..Len(q)}

\* The controller, host and agent, constructed and not running, over a
\* registry built from the given servers.
Parked(names) ==
    /\ servers = from_config(names)
    /\ messages = add_system_message(<<>>, SystemPrompt)
    /\ history_tool_calls = <<>>
    /\ is_initialized = FALSE
    /\ connected = [c \in ClientSet |-> FALSE]
    /\ host_max_steps = 0
    /\ ctrl_max_steps = 0
    /\ pc = "start"
    /\ done = FALSE /\ role = USER /\ prompt = Question
    /\ iter = 0
    /\ turn = NoTurn
    /\ answer = NoAnswer
    /\ intro_reply = NoReply
    /\ model_resp = ModelResponse(NoneVal, <<>>)
    /\ counter = 0 /\ had_tools = FALSE /\ all_tool_errors = <<>>
    /\ tool_errors = <<>> /\ tc_idx = 1
    /\ next_id = 1
    /\ exc = NoExc
    /\ step_calls = 0 /\ step_base = 0 /\ step_base_inv = 0
    /\ invoke_log = <<>> /\ resp_log = <<>> /\ dispatch_log = <<>>
    /\ raise_snapshot = <<>>

HostParked == Parked(<<"fs">>)

\* State after McpHost(agent, registry, config) and Controller(host,
\* introspector, max_steps) are constructed: the agent's history holds the
\* system message, no client is connected.
Init ==
    /\ LibIdle
    /\ servers = from_config(<<"fs">>)
    /\ messages = add_system_message(<<>>, SystemPrompt)
    /\ history_tool_calls = <<>>
    /\ is_initialized = FALSE
    /\ connected = [c \in ClientSet |-> FALSE]
    /\ host_max_steps \in 0..HostMaxSteps
    /\ ctrl_max_steps \in 0..CtrlMaxSteps
    /\ pc = "start"
    /\ done = FALSE /\ role = USER /\ prompt = Question
    /\ iter = 0
    /\ turn = NoTurn
    /\ answer = NoAnswer
    /\ intro_reply = NoReply
    /\ model_resp = ModelResponse(NoneVal, <<>>)
    /\ counter = 0 /\ had_tools = FALSE /\ all_tool_errors = <<>>
    /\ tool_errors = <<>> /\ tc_idx = 1
    /\ next_id = 1
    /\ exc = NoExc
    /\ step_calls = 0 /\ step_base = 0 /\ step_base_inv = 0
    /\ invoke_log = <<>> /\ resp_log = <<>> /\ dispatch_log = <<>>
    /\ raise_snapshot = <<>>

\* ------------------------------------------------------------ connections
ConnectError(c) == "Failed to connect to MCP server '" \o c \o "'"

\* ToolsAgent.initialize: connect the agent's clients in order; the first
\* connect that fails raises.  k clients end up connected by this call.
InitializeOutcomes(conn) ==
    {[conn |-> [c \in ClientSet |->
                  conn[c] \/ \E i \in 1..k : AgentClients[i] = c],
      ok |-> (k = Len(AgentClients)),
      msg |-> IF k = Len(AgentClients) THEN "" ELSE ConnectError(AgentClients[k + 1])] :
        k \in {j \in 0..Len(AgentClients) :
                 j < Len(AgentClients) => ~conn[AgentClients[j + 1]]}}

\* McpHost._gather_tool_specs: connect every client not yet connected; a
\* client whose connect raises is skipped.
GatherOutcomes(conn) ==
    {[c \in ClientSet |-> conn[c] \/ c \in S] : S \in SUBSET {c \in ClientSet : ~conn[c]}}


\* ------------------------------------------------------------- McpHost.step
\* Variant with an off-by-one limit.
LoopCondInclusive(resp, cnt, max_steps) == resp.tool_calls # <<>> /\ cnt <= max_steps

\* Condition of step's while loop.
LoopCond(resp, cnt, max_steps) == resp.tool_calls # <<>> /\ cnt < max_steps

\* `all_tool_errors if all_tool_errors else None`
ErrorsOrNone(errors) == errors

\* Variant that reports tools as run.
ExceptTurnHadTools(e) == Turn(NoneVal, TRUE, <<>>, e.msg)

\* Variant that reports the exception's type instead of its text.
ExceptTurnTypeName(e) == Turn(NoneVal, FALSE, <<>>, "Exception")

\* The Turn built by step's `except Exception as e` handler.
ExceptTurn(e) == Turn(NoneVal, FALSE, <<>>, e.msg)

\* Variant that forgets the errors collected before the limit was hit.
MaxStepsTurnNoErrors(ht, errors, max_steps) ==
    Turn(NoneVal, ht, <<>>, MaxStepsError(max_steps))

\* The Turn returned when the limit is hit with pending tool calls.
MaxStepsTurn(ht, errors, max_steps) ==
    Turn(NoneVal, ht, ErrorsOrNone(errors), MaxStepsError(max_steps))

\* The Turn returned otherwise.
NormalTurn(resp, ht, errors) == Turn(resp.content, ht, ErrorsOrNone(errors), NoneVal)

\* step, up to the agent call: initialize the agent if needed, gather the
\* tool specs (connecting clients on the way).
HostInit ==
    /\ pc = "h_init"
    /\ \E o \in (IF is_initialized
                 THEN {[conn |-> connected, ok |-> TRUE, msg |-> ""]}
                 ELSE InitializeOutcomes(connected)) :
         IF o.ok
         THEN /\ \E conn \in GatherOutcomes(o.conn) : connected' = conn
              /\ is_initialized' = TRUE
              /\ pc' = "h_message"
              /\ UNCHANGED <<exc, raise_snapshot>>
         ELSE /\ connected' = o.conn
              /\ exc' = Raised(o.msg)
              /\ raise_snapshot' = messages
              /\ pc' = "h_except"
              /\ UNCHANGED is_initialized
    /\ UNCHANGED <<messages, history_tool_calls, config_vars, lib_vars, ctrl_vars, turn, step_vars,
                   exec_vars, next_id, obs_vars>>

\* Variant that keeps the reply in the session, as SimpleAgent.message does.
AgentMessageKeepsReply ==
    /\ pc = "h_message"
    /\ invoke_log' = Append(invoke_log, Len(messages) + 1)
    /\ \/ \E r \in ModelResponses(next_id) :
            /\ messages' = IF Truthy(r.content)
                           THEN add_assistant_message(add_message(messages, prompt, role),
                                                      r.content)
                           ELSE add_message(messages, prompt, role)
            /\ model_resp' = r
            /\ next_id' = next_id + Len(r.tool_calls)
            /\ resp_log' = Append(resp_log, [resp |-> r, at |-> Len(messages) + 1])
            /\ counter' = 0 /\ had_tools' = FALSE /\ all_tool_errors' = <<>>
            /\ pc' = "h_while"
            /\ UNCHANGED <<exc, raise_snapshot>>
       \/ \E m \in ErrMsgs :
            /\ messages' = add_message(messages, prompt, role)
            /\ exc' = Raised(m)
            /\ raise_snapshot' = messages'
            /\ pc' = "h_except"
            /\ UNCHANGED <<step_vars, next_id, resp_log>>
    /\ UNCHANGED <<history_tool_calls, is_initialized, connected, config_vars, lib_vars, ctrl_vars,
                   turn, exec_vars, step_calls, step_base, step_base_inv, dispatch_log>>

\* agent.message(prompt, tools, role) (ToolsAgent.message): append the prompt
\* under the role, call the model, return its raw response.
AgentMessage ==
    /\ pc = "h_message"
    /\ messages' = add_message(messages, prompt, role)
    /\ invoke_log' = Append(invoke_log, Len(messages'))
    /\ \/ \E r \in ModelResponses(next_id) :
            /\ model_resp' = r
            /\ next_id' = next_id + Len(r.tool_calls)
            /\ resp_log' = Append(resp_log, [resp |-> r, at |-> Len(messages')])
            /\ counter' = 0 /\ had_tools' = FALSE /\ all_tool_errors' = <<>>
            /\ pc' = "h_while"
            /\ UNCHANGED <<exc, raise_snapshot>>
       \/ \E m \in ErrMsgs :
            /\ exc' = Raised(m)
            /\ raise_snapshot' = messages'
            /\ pc' = "h_except"
            /\ UNCHANGED <<step_vars, next_id, resp_log>>
    /\ UNCHANGED <<history_tool_calls, is_initialized, connected, config_vars, lib_vars, ctrl_vars,
                   turn, exec_vars, step_calls, step_base, step_base_inv, dispatch_log>>

\* _execute_tool_calls, before its for loop: write the assistant message
\* that carries the tool calls.
ExecBegin ==
    /\ pc = "h_while"
    /\ LoopCond(model_resp, counter, host_max_steps)
    /\ messages' = add_assistant_tool_call_message(
                      messages, OrElse(model_resp.content, ""),
                      _to_openai_tool_calls(model_resp.tool_calls))
    /\ tool_errors' = <<>>
    /\ tc_idx' = 1
    /\ pc' = "x_call"
    /\ UNCHANGED <<history_tool_calls, is_initialized, connected, config_vars, lib_vars, ctrl_vars,
                   turn, step_vars, next_id, exc, obs_vars, raise_snapshot>>

\* One iteration of _execute_tool_calls' for loop, the call succeeded in
\* being resolved: run it, record the invocation, append the response.
ExecCall ==
    /\ pc = "x_call"
    /\ tc_idx <= Len(model_resp.tool_calls)
    /\ LET tool_call == model_resp.tool_calls[tc_idx]
           server_name == find_tool_server_name(connected, tool_call.name)
       IN \E out \in [Matching(connected, tool_call.name) -> Outcomes] :
            LET result == _execute_single_tool(connected, tool_call.name, out) IN
            /\ tool_errors' =
                 IF ~result.success
                 THEN Append(tool_errors,
                        ToolError(tool_call.id, server_name, tool_call.name,
                                  IF result.error = NoneVal THEN "Tool call failed"
                                  ELSE result.error))
                 ELSE tool_errors
            /\ history_tool_calls' =
                 add_tool_call(history_tool_calls, server_name, tool_call.name,
                               tool_call.arguments, result)
            /\ messages' = add_tool_response_message(messages, tool_call.id, json_dumps(result))
            /\ dispatch_log' = Append(dispatch_log,
                 [id |-> tool_call.id, name |-> tool_call.name, at |-> Len(messages),
                  failed |-> ~result.success,
                  offering |-> Cardinality(Matching(connected, tool_call.name)),
                  recorded |-> TRUE])
    /\ tc_idx' = tc_idx + 1
    /\ UNCHANGED <<is_initialized, connected, config_vars, lib_vars, ctrl_vars, turn, step_vars, pc,
                   next_id, exc, step_calls, step_base, step_base_inv, invoke_log, resp_log,
                   raise_snapshot>>

\* Variant whose handler records the error but appends no response.
ExecCallRaisesNoResponse ==
    /\ pc = "x_call"
    /\ tc_idx <= Len(model_resp.tool_calls)
    /\ LET tool_call == model_resp.tool_calls[tc_idx] IN
       \E m \in {"boom"} :
         /\ tool_errors' = Append(tool_errors, ToolError(tool_call.id, NoneVal, tool_call.name, m))
         /\ dispatch_log' = Append(dispatch_log,
              [id |-> tool_call.id, name |-> tool_call.name, at |-> Len(messages),
               failed |-> TRUE,
               offering |-> Cardinality(Matching(connected, tool_call.name)),
               recorded |-> FALSE])
    /\ tc_idx' = tc_idx + 1
    /\ UNCHANGED <<messages, history_tool_calls, is_initialized, connected, config_vars, lib_vars,
                   ctrl_vars, turn, step_vars, pc, next_id, exc, step_calls, step_base,
                   step_base_inv, invoke_log, resp_log, raise_snapshot>>

\* One iteration of the for loop in which resolving the call raises: the
\* inner handler records the error and appends the error response.
ExecCallRaises ==
    /\ pc = "x_call"
    /\ tc_idx <= Len(model_resp.tool_calls)
    /\ LET tool_call == model_resp.tool_calls[tc_idx] IN
       \E m \in {"boom"} :
         /\ tool_errors' = Append(tool_errors, ToolError(tool_call.id, NoneVal, tool_call.name, m))
         /\ messages' = add_tool_response_message(messages, tool_call.id,
                                                  json_dumps(Result(FALSE, m)))
         /\ dispatch_log' = Append(dispatch_log,
              [id |-> tool_call.id, name |-> tool_call.name, at |-> Len(messages),
               failed |-> TRUE,
               offering |-> Cardinality(Matching(connected, tool_call.name)),
               recorded |-> FALSE])
    /\ tc_idx' = tc_idx + 1
    /\ UNCHANGED <<history_tool_calls, is_initialized, connected, config_vars, lib_vars, ctrl_vars, turn,
                   step_vars, pc, next_id, exc, step_calls, step_base, step_base_inv,
                   invoke_log, resp_log, raise_snapshot>>

\* _execute_tool_calls returns; step marks the round and keeps its errors.
ExecReturn ==
    /\ pc = "x_call"
    /\ tc_idx > Len(model_resp.tool_calls)
    /\ had_tools' = TRUE
    /\ all_tool_errors' = all_tool_errors \o tool_errors
    /\ pc' = "h_reprompt"
    /\ UNCHANGED <<messages, history_tool_calls, is_initialized, connected, config_vars, lib_vars,
                   ctrl_vars, turn, model_resp, counter, exec_vars, next_id, exc, obs_vars,
                   raise_snapshot>>

\* agent.prompt_with_existing_messages(tools): call the model on the
\* transcript as it is; then step appends a tools-free answer with content.
Reprompt ==
    /\ pc = "h_reprompt"
    /\ invoke_log' = Append(invoke_log, Len(messages))
    /\ \/ \E r \in ModelResponses(next_id) :
            /\ model_resp' = r
            /\ next_id' = next_id + Len(r.tool_calls)
            /\ resp_log' = Append(resp_log, [resp |-> r, at |-> Len(messages)])
            /\ messages' = IF Truthy(r.content) /\ r.tool_calls = <<>>
                           THEN add_assistant_message(messages, OrElse(r.content, ""))
                           ELSE messages
            /\ counter' = counter + 1
            /\ pc' = "h_while"
            /\ UNCHANGED <<exc, raise_snapshot>>
       \/ \E m \in ErrMsgs :
            /\ exc' = Raised(m)
            /\ raise_snapshot' = messages
            /\ pc' = "h_except"
            /\ UNCHANGED <<messages, model_resp, counter, next_id, resp_log>>
    /\ UNCHANGED <<history_tool_calls, is_initialized, connected, config_vars, lib_vars, ctrl_vars,
                   turn, had_tools, all_tool_errors, exec_vars, step_calls, step_base,
                   step_base_inv, dispatch_log>>

\* step returns because the limit was hit with tool calls pending.
HostReturnMaxSteps ==
    /\ pc = "h_while"
    /\ ~LoopCond(model_resp, counter, host_max_steps)
    /\ counter >= host_max_steps /\ model_resp.tool_calls # <<>>
    /\ turn' = MaxStepsTurn(had_tools, all_tool_errors, host_max_steps)
    /\ pc' = "c_turn"
    /\ UNCHANGED <<messages, history_tool_calls, is_initialized, connected, config_vars, lib_vars,
                   ctrl_vars, step_vars, exec_vars, next_id, exc, obs_vars, raise_snapshot>>

\* step returns the model's tools-free response.
HostReturn ==
    /\ pc = "h_while"
    /\ ~LoopCond(model_resp, counter, host_max_steps)
    /\ ~(counter >= host_max_steps /\ model_resp.tool_calls # <<>>)
    /\ turn' = NormalTurn(model_resp, had_tools, all_tool_errors)
    /\ pc' = "c_turn"
    /\ UNCHANGED <<messages, history_tool_calls, is_initialized, connected, config_vars, lib_vars,
                   ctrl_vars, step_vars, exec_vars, next_id, exc, obs_vars, raise_snapshot>>

\* step's `except Exception as e` handler.
HostExcept ==
    /\ pc = "h_except"
    /\ turn' = ExceptTurn(exc)
    /\ pc' = "c_turn"
    /\ UNCHANGED <<messages, history_tool_calls, is_initialized, connected, config_vars, lib_vars,
                   ctrl_vars, step_vars, exec_vars, next_id, exc, obs_vars, raise_snapshot>>


\* ------------------------------------------------------------ Controller.run
SynthesisPrompt == "Synthesize the final answer using the tool results."

\* Variant that scans from the front: the first assistant content.
FirstAssistantContent(msgs, i) ==
    LET S == {k \in 1..i : msgs[k].role = ASSISTANT /\ Truthy(msgs[k].content)} IN
    IF S = {} THEN "No final answer."
    ELSE msgs[CHOOSE k \in S : \A j \in S : k <= j].content

\* The scan after the for loop: content of the most recent assistant
\* message with content, else "No final answer.".
RECURSIVE LastAssistantContent(_, _)
LastAssistantContent(msgs, i) ==
    IF i = 0 THEN "No final answer."
    ELSE IF msgs[i].role = ASSISTANT /\ Truthy(msgs[i].content) THEN msgs[i].content
    ELSE LastAssistantContent(msgs, i - 1)

\* Variant without the `or ""`.
ContentRaw(t) == t.content

\* `turn.content or ""`
ContentOrEmpty(t) == OrElse(t.content, "")

\* Variant that runs the loop once more.
ForLoopInclusive(i, max_steps) == i <= max_steps

\* `for _ in range(self.max_steps)`: another iteration after i of them.
ForLoop(i, max_steps) == i < max_steps

HostErrorAnswer(t) == "HostError: " \o t.fatal_error

\* Variant that re-seeds the system message without clearing anything.
ResetKeepsHistory(chat_history, system_prompt) ==
    [messages |-> add_system_message(chat_history.messages, system_prompt),
     tool_calls |-> chat_history.tool_calls]

\* Agent.reset: the agent's chat_history becomes a new ChatHistory that
\* holds the system message only.
reset(chat_history, system_prompt) ==
    [messages |-> add_system_message(<<>>, system_prompt), tool_calls |-> <<>>]

\* run, up to its for loop: done = False, host.reset() (fresh history with
\* the system message, agent.initialize()), role and prompt set.  A connect
\* that fails in initialize propagates out of run.
CtrlStart ==
    /\ pc = "start"
    /\ done' = FALSE
    /\ LET fresh == reset([messages |-> messages, tool_calls |-> history_tool_calls],
                          SystemPrompt)
       IN /\ messages' = fresh.messages
          /\ history_tool_calls' = fresh.tool_calls
    /\ \E o \in InitializeOutcomes(connected) :
         /\ connected' = o.conn
         /\ is_initialized' = (o.ok \/ is_initialized)
         /\ pc' = IF o.ok THEN "c_loop" ELSE "raised"
    /\ role' = USER /\ prompt' = Question
    /\ UNCHANGED <<config_vars, lib_vars, iter, turn, answer, intro_reply, step_vars, exec_vars,
                   next_id, exc, obs_vars, raise_snapshot>>

\* One more iteration of the for loop: call host.step(prompt, role=role).
CtrlCallStep ==
    /\ pc = "c_loop"
    /\ ForLoop(iter, ctrl_max_steps)
    /\ step_calls' = step_calls + 1
    /\ step_base' = Len(messages)
    /\ step_base_inv' = Len(history_tool_calls)
    /\ invoke_log' = <<>> /\ resp_log' = <<>> /\ dispatch_log' = <<>>
    /\ exc' = NoExc /\ raise_snapshot' = <<>>
    /\ model_resp' = ModelResponse(NoneVal, <<>>)
    /\ counter' = 0 /\ had_tools' = FALSE /\ all_tool_errors' = <<>>
    /\ tool_errors' = <<>> /\ tc_idx' = 1
    /\ pc' = "h_init"
    /\ intro_reply' = NoReply
    /\ UNCHANGED <<messages, history_tool_calls, is_initialized, connected, config_vars, lib_vars,
                   done, role, prompt, iter, answer, turn, next_id>>

\* `if turn.fatal_error: return f"HostError: ..."`
CtrlFatal ==
    /\ pc = "c_turn"
    /\ Truthy(turn.fatal_error)
    /\ answer' = HostErrorAnswer(turn)
    /\ pc' = "returned"
    /\ UNCHANGED <<messages, history_tool_calls, is_initialized, connected, config_vars, lib_vars,
                   done, role, prompt, iter, turn, intro_reply, step_vars, exec_vars,
                   next_id, exc, obs_vars, raise_snapshot>>

\* Variant that runs the validation gate after synthesis too.
CtrlDoneValidates ==
    /\ pc = "c_turn"
    /\ ~Truthy(turn.fatal_error)
    /\ ~turn.had_tools
    /\ done
    /\ \E reply \in ValidateReplies :
         LET v == validate(reply) IN
         /\ intro_reply' = GateReply("validate", reply)
         /\ IF v.valid
            THEN /\ answer' = ContentOrEmpty(turn)
                 /\ pc' = "returned"
                 /\ UNCHANGED <<role, prompt, iter>>
            ELSE /\ role' = DEVELOPER
                 /\ prompt' = Get(v.followup, "Clarify and answer precisely.")
                 /\ iter' = iter + 1
                 /\ pc' = "c_loop"
                 /\ UNCHANGED answer
    /\ UNCHANGED <<messages, history_tool_calls, is_initialized, connected, config_vars, lib_vars,
                   done, turn, step_vars, exec_vars, next_id, exc, obs_vars, raise_snapshot>>

\* Tools-free turn after the synthesis instruction: return it.
CtrlDone ==
    /\ pc = "c_turn"
    /\ ~Truthy(turn.fatal_error)
    /\ ~turn.had_tools
    /\ done
    /\ answer' = ContentOrEmpty(turn)
    /\ pc' = "returned"
    /\ UNCHANGED <<messages, history_tool_calls, is_initialized, connected, config_vars, lib_vars,
                   done, role, prompt, iter, turn, intro_reply, step_vars, exec_vars,
                   next_id, exc, obs_vars, raise_snapshot>>

\* Tools-free turn, validation gate.
CtrlValidate ==
    /\ pc = "c_turn"
    /\ ~Truthy(turn.fatal_error)
    /\ ~turn.had_tools
    /\ ~done
    /\ \E reply \in ValidateReplies :
         LET v == validate(reply) IN
         /\ intro_reply' = GateReply("validate", reply)
         /\ IF v.valid
            THEN /\ answer' = ContentOrEmpty(turn)
                 /\ pc' = "returned"
                 /\ UNCHANGED <<role, prompt, iter>>
            ELSE /\ role' = DEVELOPER
                 /\ prompt' = Get(v.followup, "Clarify and answer precisely.")
                 /\ iter' = iter + 1
                 /\ pc' = "c_loop"
                 /\ UNCHANGED answer
    /\ UNCHANGED <<messages, history_tool_calls, is_initialized, connected, config_vars, lib_vars,
                   done, turn, step_vars, exec_vars, next_id, exc, obs_vars, raise_snapshot>>

\* Turn with tools, progress gate.
CtrlPlan ==
    /\ pc = "c_turn"
    /\ ~Truthy(turn.fatal_error)
    /\ turn.had_tools
    /\ \E reply \in PlanReplies :
         LET plan == plan_next(reply) IN
         /\ intro_reply' = GateReply("plan", reply)
         /\ IF plan.continue
            THEN /\ role' = DEVELOPER
                 /\ prompt' = Get(plan.next_prompt, "Proceed.")
                 /\ UNCHANGED done
            ELSE /\ role' = DEVELOPER
                 /\ prompt' = SynthesisPrompt
                 /\ done' = TRUE
    /\ iter' = iter + 1
    /\ pc' = "c_loop"
    /\ UNCHANGED <<messages, history_tool_calls, is_initialized, connected, config_vars, lib_vars,
                   answer, turn, step_vars, exec_vars, next_id, exc, obs_vars, raise_snapshot>>

\* The for loop is used up: return the last assistant content.
CtrlScan ==
    /\ pc = "c_loop"
    /\ ~ForLoop(iter, ctrl_max_steps)
    /\ answer' = LastAssistantContent(messages, Len(messages))
    /\ pc' = "returned"
    /\ UNCHANGED <<messages, history_tool_calls, is_initialized, connected, config_vars, lib_vars,
                   done, role, prompt, iter, turn, intro_reply, step_vars, exec_vars,
                   next_id, exc, obs_vars, raise_snapshot>>

Next ==
    \/ CtrlStart \/ CtrlCallStep
    \/ HostInit \/ AgentMessage \/ ExecBegin \/ ExecCall \/ ExecCallRaises \/ ExecReturn
    \/ Reprompt \/ HostReturnMaxSteps \/ HostReturn \/ HostExcept
    \/ CtrlFatal \/ CtrlDone \/ CtrlValidate \/ CtrlPlan \/ CtrlScan

Spec == Init /\ [][Next]_vars

\* Every step of the run is eventually taken (a single thread of control).
FairSpec == Spec /\ WF_vars(Next)

\* ---------------------------------------------------- the final scan alone
\* Exchanges a transcript is made of when run reaches its final scan: a
\* prompt, an answer the host appended, a round of one tool call.
ScanBlocks ==
    {<<Message(DEVELOPER, SynthesisPrompt, <<>>, NoneVal)>>,
     <<Message(ASSISTANT, "hi", <<>>, NoneVal)>>,
     <<Message(ASSISTANT, "bye", <<>>, NoneVal)>>,
     <<Message(ASSISTANT, "", _to_openai_tool_calls(<<ToolCall(CallId(1), "read_file")>>), NoneVal),
       Message(TOOL, json_dumps(Result(TRUE, NoneVal)), <<>>, CallId(1))>>}

RECURSIVE ScanTranscripts(_)
ScanTranscripts(n) ==
    IF n = 0 THEN {add_message(add_system_message(<<>>, SystemPrompt), Question, USER)}
    ELSE ScanTranscripts(n - 1)
         \cup {t \o b : t \in ScanTranscripts(n - 1), b \in ScanBlocks}

\* run has used up its for loop on some transcript.
ScanInit ==
    /\ LibIdle
    /\ servers = from_config(<<"fs">>)
    /\ messages \in ScanTranscripts(MaxScan)
    /\ history_tool_calls = <<>>
    /\ is_initialized = TRUE
    /\ connected = [c \in ClientSet |-> TRUE]
    /\ host_max_steps = HostMaxSteps
    /\ ctrl_max_steps \in 0..CtrlMaxSteps
    /\ pc = "c_loop"
    /\ done \in BOOLEAN /\ role = DEVELOPER /\ prompt = SynthesisPrompt
    /\ iter = ctrl_max_steps
    /\ turn = NoTurn
    /\ answer = NoAnswer
    /\ intro_reply = NoReply
    /\ model_resp = ModelResponse(NoneVal, <<>>)
    /\ counter = 0 /\ had_tools = FALSE /\ all_tool_errors = <<>>
    /\ tool_errors = <<>> /\ tc_idx = 1
    /\ next_id = 1
    /\ exc = NoExc
    /\ step_calls = ctrl_max_steps /\ step_base = 0 /\ step_base_inv = 0
    /\ invoke_log = <<>> /\ resp_log = <<>> /\ dispatch_log = <<>>
    /\ raise_snapshot = <<>>

ScanNext == CtrlScan

ScanSpec == ScanInit /\ [][ScanNext]_vars

\* ------------------------------------------------- a run on a used agent
\* Invocation logs an earlier question can have left behind.
UsedLogs ==
    {<<>>, add_tool_call(<<>>, "fs", "read_file", Arguments, Result(TRUE, NoneVal))}

\* run is called on a host whose agent has answered an earlier question:
\* its history holds that question's transcript and invocation log, its
\* clients are still connected, or were disconnected by cleanup().  The
\* model is going to give the responses it gives to a fresh agent.
ReplayInit ==
    /\ LibIdle
    /\ servers = from_config(<<"fs">>)
    /\ messages \in ScanTranscripts(MaxScan)
    /\ history_tool_calls \in UsedLogs
    /\ is_initialized \in BOOLEAN
    /\ connected = [c \in ClientSet |-> is_initialized]
    /\ host_max_steps = 1
    /\ ctrl_max_steps = CtrlMaxSteps
    /\ pc = "start"
    /\ done = FALSE /\ role = USER /\ prompt = Question
    /\ iter = 0
    /\ turn = NoTurn
    /\ answer = NoAnswer
    /\ intro_reply = NoReply
    /\ model_resp = ModelResponse(NoneVal, <<>>)
    /\ counter = 0 /\ had_tools = FALSE /\ all_tool_errors = <<>>
    /\ tool_errors = <<>> /\ tc_idx = 1
    /\ next_id = 1
    /\ exc = NoExc
    /\ step_calls = 0 /\ step_base = 0 /\ step_base_inv = 0
    /\ invoke_log = <<>> /\ resp_log = <<>> /\ dispatch_log = <<>>
    /\ raise_snapshot = <<>>

ReplaySpec == ReplayInit /\ [][Next]_vars

\* ------------------------------------------ a run with two tool servers
\* The registry holds two servers, built by from_config; the eval allows
\* the agent the first of them only (create_mcp_clients).
RegistryInit ==
    /\ LibIdle
    /\ servers = from_config(<<"fs", "web">>)
    /\ messages = add_system_message(<<>>, SystemPrompt)
    /\ history_tool_calls = <<>>
    /\ is_initialized = FALSE
    /\ connected = [c \in ClientSet |-> FALSE]
    /\ host_max_steps = 1
    /\ ctrl_max_steps = CtrlMaxSteps
    /\ pc = "start"
    /\ done = FALSE /\ role = USER /\ prompt = Question
    /\ iter = 0
    /\ turn = NoTurn
    /\ answer = NoAnswer
    /\ intro_reply = NoReply
    /\ model_resp = ModelResponse(NoneVal, <<>>)
    /\ counter = 0 /\ had_tools = FALSE /\ all_tool_errors = <<>>
    /\ tool_errors = <<>> /\ tc_idx = 1
    /\ next_id = 1
    /\ exc = NoExc
    /\ step_calls = 0 /\ step_base = 0 /\ step_base_inv = 0
    /\ invoke_log = <<>> /\ resp_log = <<>> /\ dispatch_log = <<>>
    /\ raise_snapshot = <<>>

RegistrySpec == RegistryInit /\ [][Next]_vars

\* ------------------------------------------------------- one McpClient
\* McpClient.connect; a failing stage raises the exception `cause`.
connect ==
    /\ client_call.n < MaxOps
    /\ IF client.connected
       THEN /\ client_call' =
                 IF client.session = NoneVal
                 THEN ClientCall("connect", TRUE, "Client is marked as connected but session is None",
                                 NoneVal, "none", <<>>, {}, client_call.n + 1)
                 ELSE ClientCall("connect", FALSE, NoneVal, NoneVal, "none", <<>>, {},
                                 client_call.n + 1)
            /\ UNCHANGED <<client, entered>>
       ELSE \E stage \in ConnectStages :
              LET partial == Reached(client, stage)
                  exits == CleanupExits(partial)
              IN IF stage = "ok"
                 THEN /\ client' = partial
                      /\ entered' = entered \cup EnteredAt(stage)
                      /\ client_call' = ClientCall("connect", FALSE, NoneVal, NoneVal, stage,
                                                    <<>>, {}, client_call.n + 1)
                 ELSE \E e \in ErrMsgs, bad \in SUBSET SeqRange(exits) :
                        LET cause == IF stage = "no_session"
                                     THEN "Failed to establish MCP session" ELSE e
                        IN /\ client' = _cleanup_contexts(partial)
                           /\ entered' = (entered \cup EnteredAt(stage)) \ SeqRange(exits)
                           /\ client_call' =
                                ClientCall("connect", TRUE, ConnectError(ClientName) \o ": " \o cause,
                                           cause, stage, exits, bad, client_call.n + 1)
    /\ UNCHANGED <<tool_response, final_result>>
    /\ UNCHANGED <<not_client_vars, host_vars>>

\* A disconnect that tears down and leaves the flag set.
DisconnectKeepsFlag ==
    /\ client_call.n < MaxOps
    /\ IF ~client.connected
       THEN /\ client_call' = ClientCall("disconnect", FALSE, NoneVal, NoneVal, "none", <<>>, {},
                                          client_call.n + 1)
            /\ UNCHANGED <<client, entered>>
       ELSE \E bad \in SUBSET SeqRange(CleanupExits(client)) :
              /\ client' = _cleanup_contexts(client)
              /\ entered' = entered \ SeqRange(CleanupExits(client))
              /\ client_call' = ClientCall("disconnect", FALSE, NoneVal, NoneVal, "none",
                                            CleanupExits(client), bad, client_call.n + 1)
    /\ UNCHANGED <<tool_response, final_result>>
    /\ UNCHANGED <<not_client_vars, host_vars>>

\* McpClient.disconnect
disconnect ==
    /\ client_call.n < MaxOps
    /\ IF ~client.connected
       THEN /\ client_call' = ClientCall("disconnect", FALSE, NoneVal, NoneVal, "none", <<>>, {},
                                          client_call.n + 1)
            /\ UNCHANGED <<client, entered>>
       ELSE \E bad \in SUBSET SeqRange(CleanupExits(client)) :
              /\ client' = [_cleanup_contexts(client) EXCEPT !.connected = FALSE]
              /\ entered' = entered \ SeqRange(CleanupExits(client))
              /\ client_call' = ClientCall("disconnect", FALSE, NoneVal, NoneVal, "none",
                                            CleanupExits(client), bad, client_call.n + 1)
    /\ UNCHANGED <<tool_response, final_result>>
    /\ UNCHANGED <<not_client_vars, host_vars>>

\* McpClient.call_tool; session.call_tool returns a result or raises.
call_tool ==
    /\ client_call.n < MaxOps
    /\ IF ~client.connected \/ client.session = NoneVal
       THEN /\ client_call' = ClientCall("call_tool", TRUE,
                                          "No active MCP session for server: " \o ClientName,
                                          NoneVal, "none", <<>>, {}, client_call.n + 1)
            /\ UNCHANGED <<tool_response, final_result>>
       ELSE \/ \E result \in ToolResponses :
                 /\ tool_response' = result
                 /\ final_result' = Normalized(result)
                 /\ client_call' = ClientCall("call_tool", FALSE, NoneVal, NoneVal, "none",
                                               <<>>, {}, client_call.n + 1)
            \/ \E e \in ErrMsgs :
                 /\ client_call' = ClientCall("call_tool", TRUE, e, NoneVal, "none",
                                               <<>>, {}, client_call.n + 1)
                 /\ UNCHANGED <<tool_response, final_result>>
    /\ UNCHANGED <<client, entered>>
    /\ UNCHANGED <<not_client_vars, host_vars>>

ClientInit == HostParked /\ LibIdle

ClientNext == connect \/ disconnect \/ call_tool

ClientSpec == ClientInit /\ [][ClientNext]_vars

\* ------------------------------------------------------ ScoreFunction
\* ScoreFunction.score: the active scorers are run in order; an exception
\* of scorer.score leaves the loop and the function.
score ==
    /\ ~overall.returned /\ score_exc = NoneVal
    /\ LET active == active_scorers(weighted_scorers)
           k == FirstRaising(active, ctx, 1)
           ran == IF k = 0 THEN Len(active) ELSE k - 1
       IN IF weighted_scorers = <<>> \/ active = <<>>
          THEN /\ overall' = Value(0, 1)
               /\ scorer_values' = <<>>
               /\ score_exc' = NoneVal
          ELSE \E values \in [1..ran -> UNION {ScorerValues(kd) : kd \in ScorerKinds}] :
                 /\ \A i \in 1..ran : values[i] \in ScorerReturns(active[i].scorer, ctx)
                 /\ scorer_values' = values
                 /\ IF k = 0
                    THEN /\ overall' = IF total_weight(active) > 0
                                        THEN Value(subtotal(active, values), total_weight(active))
                                        ELSE Value(0, 1)
                         /\ score_exc' = NoneVal
                    ELSE /\ overall' = overall
                         /\ score_exc' = "TypeError"
    /\ UNCHANGED <<weighted_scorers, ctx, not_score_vars, host_vars>>

ScoreInit ==
    /\ HostParked /\ NotScoreIdle
    /\ weighted_scorers \in ScorerLists
    /\ ctx \in ScoringContexts
    /\ scorer_values = <<>>
    /\ overall = NotScored
    /\ score_exc = NoneVal

ScoreNext == score

ScoreSpec == ScoreInit /\ [][ScoreNext]_vars

\* ------------------------------------------------- ToolCallCountScorer
\* ToolCallCountScorer.score on ctx.tool_calls
count_tool_calls ==
    /\ ~count_score.returned
    /\ count_score' =
         [returned |-> TRUE, value |-> tool_call_count_score(calls, order_matters, call_sequence)]
    /\ UNCHANGED <<calls, order_matters, call_sequence>>
    /\ UNCHANGED <<not_count_vars, host_vars>>

CountInit ==
    /\ HostParked /\ NotCountIdle
    /\ calls \in CallsConfigs
    /\ order_matters \in BOOLEAN
    /\ call_sequence \in CallSequences
    /\ count_score = NoScore

CountNext == count_tool_calls

CountSpec == CountInit /\ [][CountNext]_vars

\* ------------------------------------------------------ run_host_evals
\* The host variables run_host_evals does not touch.
host_rest_vars ==
    <<servers, messages, history_tool_calls, host_max_steps, ctrl_max_steps, pc, done, role,
      prompt, iter, turn, answer, model_resp, counter, had_tools, all_tool_errors,
      tool_errors, tc_idx, next_id, exc, step_calls, step_base, step_base_inv, invoke_log,
      resp_log, dispatch_log, raise_snapshot, intro_reply>>

\* McpHost.warm_up: connect the registry's clients in order; the first
\* connect that fails raises, and the call is made before run_host_evals
\* enters its try block.
warm_up ==
    /\ run_pc = "warm_up"
    /\ \E k \in 0..Len(Clients) :
         /\ connected' = [c \in ClientSet |-> \E i \in 1..k : Clients[i] = c]
         /\ run_pc' = IF k = Len(Clients) THEN "loop" ELSE "raised"
    /\ UNCHANGED <<num_evals, eval_idx, results, cleaned, is_initialized>>
    /\ UNCHANGED <<not_runner_vars, host_rest_vars>>

\* Result of one eval of run_host_evals.
HostEvalResult(eval_id, text, success) ==
    [eval_id |-> eval_id, answer |-> text, journal_entries |-> 0, success |-> success]

\* One iteration of the for loop: aw.ask(question) returns an answer or
\* raises; host.reset() in it leaves the agent initialized unless it is
\* where the exception comes from.
run_eval ==
    /\ run_pc = "loop" /\ eval_idx <= num_evals
    /\ \/ /\ results' = Append(results, HostEvalResult(eval_idx, "hi", TRUE))
          /\ is_initialized' = TRUE
       \/ \E e \in ErrMsgs :
            /\ results' = Append(results, HostEvalResult(eval_idx, "Error: " \o e, FALSE))
            /\ is_initialized' \in {is_initialized, TRUE}
    /\ eval_idx' = eval_idx + 1
    /\ UNCHANGED <<run_pc, num_evals, cleaned, connected>>
    /\ UNCHANGED <<not_runner_vars, host_rest_vars>>

\* The finally block after the loop: McpHost.cleanup disconnects the
\* agent's clients and then every client of the registry.
cleanup ==
    /\ run_pc = "loop" /\ eval_idx > num_evals
    /\ connected' = [c \in ClientSet |-> FALSE]
    /\ is_initialized' = FALSE
    /\ cleaned' = TRUE
    /\ run_pc' = "returned"
    /\ UNCHANGED <<num_evals, eval_idx, results>>
    /\ UNCHANGED <<not_runner_vars, host_rest_vars>>

RunnerInit ==
    /\ Parked(<<"fs", "web">>) /\ NotRunnerIdle
    /\ run_pc = "warm_up"
    /\ num_evals \in 1..MaxEvals
    /\ eval_idx = 1 /\ results = <<>> /\ cleaned = FALSE

RunnerNext == warm_up \/ run_eval \/ cleanup

RunnerSpec == RunnerInit /\ [][RunnerNext]_vars

\* ------------------------------------------------------------ run_evals
\* What converse(eval, ...) does: return a ConversationResult (success,
\* error, and the conversation, which holds the question from the start
\* and each solver answer added since) or raise before its try block.
ConversationResult(success, error, conversation_len) ==
    [raises |-> FALSE, success |-> success, error |-> error,
     conversation_len |-> conversation_len]
ConverseOutcomes ==
    {ConversationResult(TRUE, NoneVal, 2)}
    \cup {ConversationResult(FALSE, e, n) : e \in ErrMsgs, n \in 1..2}
    \cup {[raises |-> TRUE, success |-> FALSE, error |-> e, conversation_len |-> 1] :
              e \in ErrMsgs}

\* McpEvaluationResult; completed and transcript_len record what the eval
\* did: whether it ran to its end, and the length of the transcript it had
\* accumulated.
McpEvaluationResult(eval_id, score_value, reasoning, conversation_len, completed, transcript_len) ==
    [eval_id |-> eval_id, score |-> score_value, reasoning |-> reasoning,
     conversation_len |-> conversation_len, completed |-> completed,
     transcript_len |-> transcript_len]

\* One iteration of run_evals' for loop.
evaluate ==
    /\ run_pc = "evals" /\ eval_idx <= num_evals
    /\ \E o \in ConverseOutcomes :
         results' = Append(results,
            IF o.raises
            THEN McpEvaluationResult(eval_idx, 0, o.error, 0, FALSE, o.conversation_len)
            ELSE IF ~o.success
            THEN McpEvaluationResult(eval_idx, 0, OrElse(o.error, "Unknown error"), 0,
                                     FALSE, o.conversation_len)
            ELSE McpEvaluationResult(eval_idx, Scale, "critique: ok", o.conversation_len,
                                     TRUE, o.conversation_len))
    /\ eval_idx' = eval_idx + 1
    /\ UNCHANGED <<run_pc, num_evals, cleaned>>
    /\ UNCHANGED <<not_runner_vars, host_vars>>

\* After the loop: print the summary, write the sink, return results.
evals_return ==
    /\ run_pc = "evals" /\ eval_idx > num_evals
    /\ run_pc' = "returned"
    /\ UNCHANGED <<num_evals, eval_idx, results, cleaned>>
    /\ UNCHANGED <<not_runner_vars, host_vars>>

EvalsInit ==
    /\ HostParked /\ NotRunnerIdle
    /\ run_pc = "evals"
    /\ num_evals \in 1..MaxEvals
    /\ eval_idx = 1 /\ results = <<>> /\ cleaned = FALSE

EvalsNext == evaluate \/ evals_return

EvalsSpec == EvalsInit /\ [][EvalsNext]_vars

\* ----------------------------------------------- host.McpHost.prompt
\* Top of the while loop with depth < max_steps: gather the tool specs and
\* call agent.message(prompt_text, tools, role).
propose ==
    /\ h_pc = "loop" /\ depth < inline_max_steps
    /\ depth' = depth + 1
    /\ agent_calls' = Append(agent_calls, [role |-> prompt_role, message |-> prompt_text])
    /\ \E resp \in InlineResponses :
         /\ latest_resp' = resp
         /\ journal' = journal \o <<"gather_tools", "propose">>
                          \o (IF resp.has_tools THEN <<"execute_tools">> ELSE <<>>)
    /\ h_pc' = "introspect"
    /\ UNCHANGED <<introspector_set, inline_max_steps, prompt_text, prompt_role, nudges,
                   final_answer>>
    /\ UNCHANGED <<not_prompt_vars, host_vars>>

\* The rest of the iteration: the introspection gate after a plain answer
\* or after the tool calls were executed, and what the loop does with the
\* decision.
introspect ==
    /\ h_pc = "introspect"
    /\ \E reply \in InlineReplies :
         LET r == _introspect(introspector_set, reply)
             decision == r.decision
             next_prompt == GetNextPrompt(decision)
             dev_msg == OrElse(next_prompt, decision.reason)
         IN /\ nudges' = IF decision.continue /\ Truthy(next_prompt)
                          THEN Append(nudges, next_prompt) ELSE nudges
            /\ IF ~latest_resp.has_tools
               THEN IF decision.continue /\ Truthy(dev_msg)
                    THEN /\ prompt_text' = dev_msg /\ prompt_role' = DEVELOPER
                         /\ journal' = journal \o <<r.event, "introspect", "introspect_prompt">>
                         /\ h_pc' = "loop"
                         /\ UNCHANGED final_answer
                    ELSE /\ journal' = journal \o <<r.event, "introspect", "complete">>
                         /\ final_answer' = OrElse(latest_resp.content, "No response generated.")
                         /\ h_pc' = "returned"
                         /\ UNCHANGED <<prompt_text, prompt_role>>
               ELSE IF decision.continue /\ Truthy(next_prompt)
                    THEN /\ prompt_text' = next_prompt /\ prompt_role' = DEVELOPER
                         /\ journal' = journal \o <<r.event, "introspect_prompt">>
                         /\ h_pc' = "loop"
                         /\ UNCHANGED final_answer
                    ELSE /\ journal' = journal \o <<r.event, "introspect", "complete">>
                         /\ final_answer' = OrElse(latest_resp.content, "No final answer generated.")
                         /\ h_pc' = "returned"
                         /\ UNCHANGED <<prompt_text, prompt_role>>
    /\ UNCHANGED <<introspector_set, inline_max_steps, depth, latest_resp, agent_calls>>
    /\ UNCHANGED <<not_prompt_vars, host_vars>>

\* The while condition fails: max steps reached.
prompt_exit ==
    /\ h_pc = "loop" /\ ~(depth < inline_max_steps)
    /\ final_answer' = OrElse(latest_resp.content, "No final answer generated.")
    /\ journal' = Append(journal, "complete")
    /\ h_pc' = "returned"
    /\ UNCHANGED <<introspector_set, inline_max_steps, depth, prompt_text, prompt_role,
                   latest_resp, agent_calls, nudges>>
    /\ UNCHANGED <<not_prompt_vars, host_vars>>

\* prompt(question) is entered, the agent being initialized.
PromptInit ==
    /\ HostParked /\ NotPromptIdle
    /\ h_pc = "loop"
    /\ introspector_set \in BOOLEAN
    /\ inline_max_steps \in 1..MaxDepth
    /\ depth = 0 /\ prompt_text = Question /\ prompt_role = USER
    /\ latest_resp = NoInlineResponse
    /\ journal = <<"question">> /\ agent_calls = <<>> /\ nudges = <<>>
    /\ final_answer = NoAnswer

PromptNext == propose \/ introspect \/ prompt_exit

PromptSpec == PromptInit /\ [][PromptNext]_vars

\* ----------------------------------------------- ReasoningAgent.message
RoleContent(r, content) == [role |-> r, content |-> content]

\* message's except branch: the error text becomes the answer.
ErrorResponse(e) == InlineResponse("Error: " \o e, FALSE)

\* message, up to its while loop: add the user message, ask the provider.
first_response ==
    /\ r_pc = "start"
    /\ \/ \E resp \in InlineResponses :
            /\ response' = resp
            /\ r_messages' = Append(r_messages, RoleContent(USER, Question))
            /\ r_pc' = "loop"
            /\ UNCHANGED r_failed
       \/ \E e \in ErrMsgs :
            /\ response' = ErrorResponse(e)
            /\ r_messages' = r_messages \o <<RoleContent(USER, Question),
                                               RoleContent(ASSISTANT, OrElse("Error: " \o e,
                                                                   "Unknown error occurred"))>>
            /\ r_failed' = TRUE
            /\ r_pc' = "returned"
    /\ UNCHANGED <<r_max_steps, step_count, inner_calls>>
    /\ UNCHANGED <<not_reason_vars, host_vars>>

\* One iteration of the while loop, _execute_tools_with_introspection:
\* record the tool calls, execute them (a failed call is analysed through
\* the inner provider, once, and once more after a retry that failed), and
\* ask the provider again.
execute_tools ==
    /\ r_pc = "loop" /\ response.has_tools /\ step_count < r_max_steps
    /\ step_count' = step_count + 1
    /\ \E analyses \in 0..2 :
         /\ inner_calls' = inner_calls + analyses
         /\ \/ \E resp \in InlineResponses :
                 /\ response' = resp
                 /\ r_messages' = r_messages \o <<RoleContent(ASSISTANT, ""),
                                                    RoleContent(TOOL, "result")>>
                 /\ UNCHANGED <<r_pc, r_failed>>
            \/ \E e \in ErrMsgs :
                 /\ response' = ErrorResponse(e)
                 /\ r_messages' = r_messages \o <<RoleContent(ASSISTANT, ""),
                                                    RoleContent(TOOL, "result"),
                                                    RoleContent(ASSISTANT, OrElse("Error: " \o e,
                                                                   "Unknown error occurred"))>>
                 /\ r_failed' = TRUE
                 /\ r_pc' = "returned"
    /\ UNCHANGED r_max_steps
    /\ UNCHANGED <<not_reason_vars, host_vars>>

\* After the loop: the response is added to the history and returned.
message_return ==
    /\ r_pc = "loop" /\ ~(response.has_tools /\ step_count < r_max_steps)
    /\ r_messages' = Append(r_messages, RoleContent(ASSISTANT, response.content))
    /\ r_pc' = "returned"
    /\ UNCHANGED <<r_max_steps, step_count, response, inner_calls, r_failed>>
    /\ UNCHANGED <<not_reason_vars, host_vars>>

ReasonInit ==
    /\ HostParked /\ NotReasonIdle
    /\ r_pc = "start"
    /\ r_max_steps \in 0..MaxDepth
    /\ step_count = 0
    /\ response = NoInlineResponse
    /\ r_messages = <<>> /\ inner_calls = 0 /\ r_failed = FALSE

ReasonNext == first_response \/ execute_tools \/ message_return

ReasonSpec == ReasonInit /\ [][ReasonNext]_vars

\* ------------------------------------------- Introspector on its own agent
\* The user messages the gates send: the filled validation template, and
\* the rendered trace of the primary transcript.
ValidationPrompt == "validate <trace> <answer>"
TracePrompt == "<trace>"

\* message() of the introspector's agent on a history: the prompt is added
\* under the user role, the provider is called; an agent that keeps its
\* session (SimpleAgent) adds the content of the reply, if it has any.
IntroMessage(msgs, text, reply, keeps) ==
    LET asked == add_message(msgs, text, USER) IN
    IF ~reply.raises /\ Truthy(reply.content) /\ keeps
    THEN add_assistant_message(asked, reply.content)
    ELSE asked

\* Replies to a validation request, one without a followup_question too.
IntroValidateReplies == ValidateReplies \cup {Reply(FALSE, "{\"valid\": false}")}

\* Variant of validate_call that does not reset the agent first.
ValidateKeepsTranscript ==
    /\ intro_calls < MaxGates
    /\ \E reply \in IntroValidateReplies, keeps \in BOOLEAN :
         LET v == validate(reply) IN
         /\ intro_start' = intro_history.messages
         /\ intro_history' = [messages |-> IntroMessage(intro_history.messages, ValidationPrompt,
                                                       reply, keeps),
                              tool_calls |-> intro_history.tool_calls]
         /\ intro_result' = GateResult("validate", v.valid, v.followup)
    /\ intro_calls' = intro_calls + 1
    /\ UNCHANGED <<not_intro_vars, host_vars>>

\* Introspector.validate: agent.reset(), agent.message(prompt), the verdict.
validate_call ==
    /\ intro_calls < MaxGates
    /\ \E reply \in IntroValidateReplies, keeps \in BOOLEAN :
         LET fresh == reset(intro_history, IntrospectorPrompt)
             v == validate(reply)
         IN
         /\ intro_start' = fresh.messages
         /\ intro_history' = [messages |-> IntroMessage(fresh.messages, ValidationPrompt,
                                                       reply, keeps),
                              tool_calls |-> fresh.tool_calls]
         /\ intro_result' = GateResult("validate", v.valid, v.followup)
    /\ intro_calls' = intro_calls + 1
    /\ UNCHANGED <<not_intro_vars, host_vars>>

\* Introspector.plan_next: agent.reset(), agent.message(trace), the plan.
plan_next_call ==
    /\ intro_calls < MaxGates
    /\ \E reply \in PlanReplies, keeps \in BOOLEAN :
         LET fresh == reset(intro_history, IntrospectorPrompt)
             plan == plan_next(reply)
         IN
         /\ intro_start' = fresh.messages
         /\ intro_history' = [messages |-> IntroMessage(fresh.messages, TracePrompt,
                                                       reply, keeps),
                              tool_calls |-> fresh.tool_calls]
         /\ intro_result' = GateResult("plan", plan.continue, plan.next_prompt)
    /\ intro_calls' = intro_calls + 1
    /\ UNCHANGED <<not_intro_vars, host_vars>>

\* The introspector's agent is new or was used before; the primary agent
\* holds some transcript and invocation log; the host is not running.
IntroInit ==
    /\ NotIntroIdle
    /\ servers = from_config(<<"fs">>)
    /\ messages \in ScanTranscripts(MaxTrace)
    /\ history_tool_calls \in UsedLogs
    /\ is_initialized = TRUE
    /\ connected = [c \in ClientSet |-> TRUE]
    /\ host_max_steps = 0
    /\ ctrl_max_steps = 0
    /\ pc = "start"
    /\ done = FALSE /\ role = USER /\ prompt = Question
    /\ iter = 0
    /\ turn = NoTurn
    /\ answer = NoAnswer
    /\ intro_reply = NoReply
    /\ model_resp = ModelResponse(NoneVal, <<>>)
    /\ counter = 0 /\ had_tools = FALSE /\ all_tool_errors = <<>>
    /\ tool_errors = <<>> /\ tc_idx = 1
    /\ next_id = 1
    /\ exc = NoExc
    /\ step_calls = 0 /\ step_base = 0 /\ step_base_inv = 0
    /\ invoke_log = <<>> /\ resp_log = <<>> /\ dispatch_log = <<>>
    /\ raise_snapshot = <<>>
    /\ intro_history \in
          {[messages |-> m, tool_calls |-> l] :
             m \in {add_system_message(<<>>, IntrospectorPrompt),
                    IntroMessage(add_system_message(<<>>, IntrospectorPrompt), TracePrompt,
                                 Reply(FALSE, "{\"continue\": true}"), TRUE)},
             l \in UsedLogs}
    /\ intro_start = <<>>
    /\ intro_result = NoGateResult
    /\ intro_calls = 0

IntroNext == validate_call \/ plan_next_call

IntroSpec == IntroInit /\ [][IntroNext]_vars

\* ------------------------------------------- the two ways a tool is invoked
\* Characters of the texts a tool returns, and the texts.
Chars == {"e", "E", "r", "o", "k"}
RECURSIVE Texts(_)
Texts(n) ==
    IF n = 0 THEN {<<>>}
    ELSE Texts(n - 1) \cup {Append(t, c) : t \in {u \in Texts(n - 1) : Len(u) = n - 1}, c \in Chars}

\* str.lower, text[:10] and str.startswith
lower(text) ==
    [i \in 1..Len(text) |-> CASE text[i] = "E" -> "e" [] OTHER -> text[i]]
Slice10(text) == SubSeq(text, 1, Min(10, Len(text)))
startswith(text, prefix) ==
    Len(text) >= Len(prefix) /\ SubSeq(text, 1, Len(prefix)) = prefix

\* The heuristic of ToolsAgent.call_tool (find_errors_in_content is True).
ErrorInContent(result) ==
    result.has_content /\ startswith(lower(Slice10(result.content)), <<"e", "r", "r", "o", "r">>)

\* Results McpClient.call_tool returns: plain text, a failure mapping.
ClientResults ==
    {TextResult(t) : t \in Texts(MaxText)} \cup {FailureResult(<<"k", "o">>)}

\* ToolsAgent.call_tool on the client that lists the tool; its callers
\* dump what it returns into the tool response message.
agent_call_tool ==
    /\ tool_path = "none"
    /\ LET result == IF ErrorInContent(client_result)
                     THEN FailureResult(client_result.content)
                     ELSE client_result
       IN /\ recorded' = result
          /\ shown' = result
          /\ counted' = Counted(~result.success, result.error)
    /\ tool_path' = "agent"
    /\ UNCHANGED client_result
    /\ UNCHANGED <<not_invoke_vars, host_vars>>

\* McpHost._execute_tool_calls, one iteration of its for loop, the tool
\* found by _execute_single_tool on a registry client.
host_execute ==
    /\ tool_path = "none"
    /\ LET result == client_result
       IN /\ counted' = Counted(~result.success, result.error)
          /\ recorded' = result
          /\ shown' = result
    /\ tool_path' = "host"
    /\ UNCHANGED client_result
    /\ UNCHANGED <<not_invoke_vars, host_vars>>

InvokeInit ==
    /\ HostParked /\ NotInvokeIdle
    /\ tool_path = "none"
    /\ client_result \in ClientResults
    /\ recorded = NoToolResult /\ shown = NoToolResult
    /\ counted = Counted(FALSE, <<>>)

InvokeNext == agent_call_tool \/ host_execute

InvokeSpec == InvokeInit /\ [][InvokeNext]_vars

\* ----------------------------- ReasoningAgent.message with tool-call ids
\* A message of the chat history: its role, the ids of its tool calls (an
\* assistant message of add_assistant_tool_call_message) and its
\* tool_call_id (a message of add_tool_response_message, else 0).
HistoryMessage(r, tool_calls, tool_call_id) ==
    [role |-> r, tool_calls |-> tool_calls, tool_call_id |-> tool_call_id]

\* A response of the provider that requests n tool calls: the provider
\* gives every call an id it has not used before.
ToolCallIds(first, n) == [k \in 1..n |-> first + k - 1]

\* How many tool calls a response of _plan_retry that has tool calls carries.
RetryCallCounts == {1, 2}

\* message's except branch: the error is added as the assistant's answer
\* and returned.
MessageExcept ==
    /\ t_history' = Append(t_history, HistoryMessage(ASSISTANT, <<>>, 0))
    /\ t_response' = <<>>
    /\ t_pc' = "returned"

\* message, up to its while loop.
message_begin ==
    /\ t_pc = "start"
    /\ \/ \E n \in 0..MaxBatch :
            /\ t_response' = ToolCallIds(t_fresh, n)
            /\ t_fresh' = t_fresh + n
            /\ t_history' = Append(t_history, HistoryMessage(USER, <<>>, 0))
            /\ t_pc' = "loop"
       \/ /\ t_history' = t_history \o <<HistoryMessage(USER, <<>>, 0),
                                          HistoryMessage(ASSISTANT, <<>>, 0)>>
          /\ t_response' = <<>>
          /\ t_pc' = "returned"
          /\ UNCHANGED t_fresh
    /\ UNCHANGED <<t_max_steps, t_max_retries, t_steps, t_k, t_retries, t_invoked>>
    /\ UNCHANGED <<not_round_vars, host_vars>>

\* One iteration of message's while loop, up to the for loop of
\* _execute_tools_with_introspection: the tool calls are recorded.
execute_tools_with_introspection ==
    /\ t_pc = "loop" /\ t_response # <<>> /\ t_steps < t_max_steps
    /\ t_steps' = t_steps + 1
    /\ t_history' = Append(t_history, HistoryMessage(ASSISTANT, t_response, 0))
    /\ t_k' = 1
    /\ t_pc' = "for"
    /\ UNCHANGED <<t_max_steps, t_max_retries, t_response, t_retries, t_fresh, t_invoked>>
    /\ UNCHANGED <<not_round_vars, host_vars>>

\* _execute_single_tool_with_introspection up to its retry loop: the first
\* attempt and its tool response; a failure that the analysis calls fixable
\* and worth a retry enters the retry loop.
execute_single_tool_with_introspection ==
    /\ t_pc = "for" /\ t_k <= Len(t_response)
    /\ \E success \in BOOLEAN, retry \in BOOLEAN :
         /\ t_invoked' = <<success>>
         /\ t_history' = Append(t_history, HistoryMessage(TOOL, <<>>, t_response[t_k]))
         /\ t_retries' = 0
         /\ IF success \/ ~retry
              THEN t_k' = t_k + 1 /\ t_pc' = "for"
              ELSE t_k' = t_k /\ t_pc' = "retry"
    /\ UNCHANGED <<t_max_steps, t_max_retries, t_steps, t_response, t_fresh>>
    /\ UNCHANGED <<not_round_vars, host_vars>>

\* A retry loop that goes on after a retried call succeeded.
PlanRetryAfterSuccess ==
    /\ t_pc = "retry" /\ t_retries < t_max_retries
    /\ t_retries' = t_retries + 1
    /\ \/ \E n \in RetryCallCounts, success \in BOOLEAN, retry \in BOOLEAN :
            /\ t_history' = t_history \o
                   <<HistoryMessage(ASSISTANT, ToolCallIds(t_fresh, n), 0),
                     HistoryMessage(TOOL, <<>>, t_fresh)>>
            /\ t_fresh' = t_fresh + n
            /\ t_invoked' = Append(t_invoked, success)
            /\ IF ~retry
                 THEN t_k' = t_k + 1 /\ t_pc' = "for"
                 ELSE t_k' = t_k /\ t_pc' = "retry"
            /\ UNCHANGED t_response
       \/ /\ t_k' = t_k + 1 /\ t_pc' = "for"
          /\ UNCHANGED <<t_history, t_fresh, t_invoked, t_response>>
       \/ /\ MessageExcept
          /\ UNCHANGED <<t_k, t_fresh, t_invoked>>
    /\ UNCHANGED <<t_max_steps, t_max_retries, t_steps>>
    /\ UNCHANGED <<not_round_vars, host_vars>>

\* One iteration of the retry loop: _plan_retry asks for a corrected call;
\* the response's tool calls are all recorded, its first one is invoked
\* and answered. _plan_retry is outside any try of its own: its exception
\* ends message through the except branch.
plan_retry ==
    /\ t_pc = "retry" /\ t_retries < t_max_retries
    /\ t_retries' = t_retries + 1
    /\ \/ \E n \in RetryCallCounts, success \in BOOLEAN, retry \in BOOLEAN :
            /\ t_history' = t_history \o
                   <<HistoryMessage(ASSISTANT, ToolCallIds(t_fresh, n), 0),
                     HistoryMessage(TOOL, <<>>, t_fresh)>>
            /\ t_fresh' = t_fresh + n
            /\ t_invoked' = Append(t_invoked, success)
            /\ IF success \/ ~retry
                 THEN t_k' = t_k + 1 /\ t_pc' = "for"
                 ELSE t_k' = t_k /\ t_pc' = "retry"
            /\ UNCHANGED t_response
       \/ /\ t_k' = t_k + 1 /\ t_pc' = "for"
          /\ UNCHANGED <<t_history, t_fresh, t_invoked, t_response>>
       \/ /\ MessageExcept
          /\ UNCHANGED <<t_k, t_fresh, t_invoked>>
    /\ UNCHANGED <<t_max_steps, t_max_retries, t_steps>>
    /\ UNCHANGED <<not_round_vars, host_vars>>

\* The retry loop ends when max_retries_per_call retries were made.
retries_exhausted ==
    /\ t_pc = "retry" /\ ~(t_retries < t_max_retries)
    /\ t_k' = t_k + 1 /\ t_pc' = "for"
    /\ UNCHANGED <<t_max_steps, t_max_retries, t_steps, t_response, t_history, t_retries,
                   t_fresh, t_invoked>>
    /\ UNCHANGED <<not_round_vars, host_vars>>

\* After the for loop of _execute_tools_with_introspection: the provider is
\* asked again, and its response is the loop's next one.
final_response ==
    /\ t_pc = "for" /\ t_k > Len(t_response)
    /\ \/ \E n \in 0..MaxBatch :
            /\ t_response' = ToolCallIds(t_fresh, n)
            /\ t_fresh' = t_fresh + n
            /\ t_pc' = "loop"
            /\ UNCHANGED t_history
       \/ /\ MessageExcept
          /\ UNCHANGED t_fresh
    /\ UNCHANGED <<t_max_steps, t_max_retries, t_steps, t_k, t_retries, t_invoked>>
    /\ UNCHANGED <<not_round_vars, host_vars>>

\* After the while loop: the response's content is added as the
\* assistant's answer and the response is returned.
message_end ==
    /\ t_pc = "loop" /\ ~(t_response # <<>> /\ t_steps < t_max_steps)
    /\ t_history' = Append(t_history, HistoryMessage(ASSISTANT, <<>>, 0))
    /\ t_pc' = "returned"
    /\ UNCHANGED <<t_max_steps, t_max_retries, t_steps, t_response, t_k, t_retries,
                   t_fresh, t_invoked>>
    /\ UNCHANGED <<not_round_vars, host_vars>>

RoundInit ==
    /\ HostParked /\ NotRoundIdle
    /\ t_pc = "start"
    /\ t_max_steps \in 0..MaxRounds
    /\ t_max_retries \in 0..MaxRetries
    /\ t_steps = 0 /\ t_response = <<>> /\ t_history = <<>> /\ t_k = 0
    /\ t_retries = 0 /\ t_fresh = 1 /\ t_invoked = <<>>

RoundNext ==
    \/ message_begin
    \/ execute_tools_with_introspection
    \/ execute_single_tool_with_introspection
    \/ plan_retry
    \/ retries_exhausted
    \/ final_response
    \/ message_end

RoundSpec == RoundInit /\ [][RoundNext]_vars

\* Every await of message returns or raises (a single thread of control).
RoundFairSpec == RoundSpec /\ WF_vars(RoundNext)

TypeOK ==
    /\ pc \in {"start", "raised", "c_loop", "h_init", "h_message", "h_while", "x_call",
               "h_reprompt", "h_except", "c_turn", "returned"}
    /\ iter \in 0..ctrl_max_steps
    /\ counter \in 0..host_max_steps
    /\ next_id \in 1..(MaxIds + 1)


\* ================================================================= claims
Ids(tcs) == [k \in 1..Len(tcs) |-> tcs[k].id]

\* The step has returned its Turn and run has not yet looked at it.
StepReturned == pc = "c_turn"

\* Message i is the assistant message that lists exactly the calls tcs.
ListsCalls(i, tcs) ==
    /\ i <= Len(messages)
    /\ messages[i].role = ASSISTANT
    /\ Ids(messages[i].tool_calls) = Ids(tcs)

\* Message i is the tool response to the call `id`.
RespondsTo(i, id) ==
    /\ i <= Len(messages)
    /\ messages[i].role = TOOL
    /\ messages[i].tool_call_id = id

\* The k-th response of the step, with its calls c1..cn, is written and
\* executed in order as far as the step has come: the assistant message
\* first, then the responses in the order c1..cn, each call dispatched on
\* the transcript that ends with the previous call's response, and the next
\* model invocation on the transcript that ends with the last response.
BlockInOrder(k) ==
    LET e == resp_log[k]
        tcs == e.resp.tool_calls
        n == Len(tcs)
        avail == Len(messages) - e.at
    IN /\ avail >= 1 => ListsCalls(e.at + 1, tcs)
       /\ \A j \in 1..n : avail >= 1 + j => RespondsTo(e.at + 1 + j, tcs[j].id)
       /\ \A d \in 1..Len(dispatch_log) : \A j \in 1..n :
            dispatch_log[d].id = tcs[j].id => dispatch_log[d].at = e.at + j
       /\ k < Len(invoke_log) => invoke_log[k + 1] = e.at + 1 + n
       /\ k = Len(invoke_log) => avail <= 1 + n

\* The k-th response's block is complete: assistant message and all n
\* tool responses are in the transcript.
BlockComplete(k) ==
    Len(messages) - resp_log[k].at >= 1 + Len(resp_log[k].resp.tool_calls)

WithCalls(k) == resp_log[k].resp.tool_calls # <<>>

\* C1 (as stated, for max_steps >= 1): in Host.step, EVERY model response that carries tool
\* calls c1..cn gets its assistant-with-tool-calls message, then one tool
\* response per call in the order c1..cn, and only then is the model invoked
\* again; when step returns, the block of every such response is complete.
C1_Original ==
    host_max_steps >= 1 =>
      \A k \in 1..Len(resp_log) :
        WithCalls(k) => /\ BlockInOrder(k)
                        /\ StepReturned => BlockComplete(k)

\* C1 (amended): the same for every response with tool calls that step
\* receives while fewer than max_steps rounds have been executed (the k-th
\* response with k <= max_steps); the response received when the budget is
\* used up is never written to the transcript.
C1_Ordered ==
    \A k \in 1..Len(resp_log) :
      WithCalls(k) =>
        IF k <= host_max_steps
        THEN /\ BlockInOrder(k)
             /\ StepReturned => BlockComplete(k)
        ELSE Len(messages) = resp_log[k].at

\* C1 witness: a step returned after a response with two calls was executed
\* and the model was invoked again.
C1_Witness ==
    /\ StepReturned
    /\ \E k \in 1..Len(resp_log) :
         /\ Len(resp_log[k].resp.tool_calls) = 2
         /\ k < Len(invoke_log)
         /\ BlockComplete(k)

\* C2: every tool-response message (a message with a tool_call_id) is
\* preceded by an assistant message whose tool_calls contains that id.
C2_ResponseHasRequest ==
    \A i \in 1..Len(messages) :
      messages[i].tool_call_id # NoneVal =>
        \E j \in 1..(i - 1) :
          /\ messages[j].role = ASSISTANT
          /\ \E k \in 1..Len(messages[j].tool_calls) :
               messages[j].tool_calls[k].id = messages[i].tool_call_id

\* C2 witness: the transcript holds the responses to two calls.
C2_Witness ==
    Cardinality({i \in 1..Len(messages) : messages[i].tool_call_id # NoneVal}) >= 2

\* The step returns because its budget is used up with calls pending.
Exhausted == StepReturned /\ ~exc.raised /\ model_resp.tool_calls # <<>>

\* None of the pending calls was dispatched or answered.
PendingNotExecuted ==
    \A k \in 1..Len(model_resp.tool_calls) :
      /\ \A d \in 1..Len(dispatch_log) : dispatch_log[d].id # model_resp.tool_calls[k].id
      /\ \A i \in 1..Len(messages) : messages[i].tool_call_id # model_resp.tool_calls[k].id

C4_Original == host_max_steps >= 1 => Len(invoke_log) <= host_max_steps

\* C4 (amended): within one step the model is invoked at most
\* max_steps + 1 times: the initial propose and at most max_steps re-prompts.
C4_Invocations ==
    /\ Len(invoke_log) <= host_max_steps + 1
    /\ counter <= host_max_steps

\* C4 witness: a step that used the whole budget, max_steps + 1 invocations.
C4_Witness == host_max_steps >= 1 /\ Len(invoke_log) = host_max_steps + 1


\* run is over: it returned, or host.reset() raised before the loop.
Terminal == {"returned", "raised"}

\* A natural number that every step of run decreases: iterations of run's
\* loop left, then rounds of step's loop left, then calls of the batch left.
RoundSpan == MaxCalls + 6
StepSpan == 8 + (HostMaxSteps + 2) * RoundSpan
StageRank ==
    CASE pc = "c_loop" -> StepSpan - 1
      [] pc = "h_init" -> StepSpan - 2
      [] pc = "h_message" -> StepSpan - 3
      [] pc = "h_while" -> 3 + (host_max_steps - counter) * RoundSpan + (RoundSpan - 1)
      [] pc = "x_call" -> 3 + (host_max_steps - counter) * RoundSpan + (MaxCalls + 3 - tc_idx)
      [] pc = "h_reprompt" -> 3 + (host_max_steps - counter) * RoundSpan + 1
      [] pc = "h_except" -> 2
      [] pc = "c_turn" -> 1
      [] OTHER -> 0
Rank ==
    IF pc = "start" THEN (CtrlMaxSteps + 3) * StepSpan
    ELSE IF pc \in Terminal THEN 0
    ELSE (ctrl_max_steps - iter + 1) * StepSpan + StageRank

IsString(v) == v # NoneVal /\ v # NoAnswer

\* C5: Controller.run calls host.step at most max_steps times and, once
\* host.reset() has completed, always terminates by returning a string:
\* every step of the run decreases a natural-number rank, the run can
\* always take a step until it has returned, and what it returns is a
\* string (never None).
C5_Terminates ==
    /\ [](step_calls <= ctrl_max_steps)
    /\ [](Rank >= 0 /\ (pc \notin Terminal => ENABLED Next))
    /\ [](pc = "returned" => IsString(answer))
    /\ [](pc = "raised" => step_calls = 0 /\ turn = NoTurn)
    /\ [][Rank' < Rank]_vars

\* C5 witness: run returned after max_steps = 2 calls of host.step.
C5_Witness == pc = "returned" /\ step_calls = 2 /\ step_calls = ctrl_max_steps

\* The first response of the step had no tool calls and non-empty content,
\* and the step returned.
PlainFirstAnswer ==
    /\ StepReturned /\ ~exc.raised
    /\ Len(resp_log) = 1
    /\ resp_log[1].resp.tool_calls = <<>>
    /\ Truthy(resp_log[1].resp.content)

\* C6: when the first response of a step has no tool calls, step appends
\* its content as one assistant message and returns Turn(content, hadTools =
\* false); on a freshly reset transcript the messages after the system
\* message are then exactly [user, assistant] and the invocation log is
\* empty.
C6_PlainAnswerAppended ==
    PlainFirstAnswer =>
      /\ turn = Turn(resp_log[1].resp.content, FALSE, <<>>, NoneVal)
      /\ SubSeq(messages, step_base + 1, Len(messages))
           = <<Message(role, prompt, <<>>, NoneVal),
               Message(ASSISTANT, resp_log[1].resp.content, <<>>, NoneVal)>>
      /\ step_calls = 1 =>
           /\ messages[1].role = SYSTEM
           /\ Len(messages) = 3 /\ messages[2].role = USER
           /\ history_tool_calls = <<>>

\* C7: for every Turn returned by step, hadTools implies that at least one
\* tool-response message was appended to the transcript during that step.
C7_HadToolsHasResponse ==
    StepReturned /\ turn.had_tools =>
      \E i \in (step_base + 1)..Len(messages) :
        messages[i].role = TOOL /\ messages[i].tool_call_id # NoneVal

\* C7 witness: a step returned a Turn with hadTools.
C7_Witness == StepReturned /\ turn.had_tools

\* C8: an exception raised during step is caught inside step: the handler
\* always gets to return a Turn, that Turn's fatalError is the error's text,
\* and the messages appended before the exception are all still there,
\* unchanged and in the same order.
C8_ExceptionCaught ==
    /\ pc = "h_except" => exc.raised /\ ENABLED HostExcept
    /\ StepReturned /\ exc.raised =>
         /\ turn.fatal_error # NoneVal
         /\ turn.fatal_error = exc.msg
         /\ messages = raise_snapshot
         /\ Len(raise_snapshot) > step_base

\* C8 witness: the exception came after a round of tool calls had been
\* written to the transcript.
C8_Witness == StepReturned /\ exc.raised /\ Len(messages) >= step_base + 3

\* Tool response content that is a JSON error payload.
IsErrorPayload(content) ==
    \E m \in ErrMsgs \cup {"boom", "no such file"}
               \cup {"Tool " \o t \o " not found in any connected MCP client" : t \in ToolNames} :
      content = json_dumps(Result(FALSE, m))

\* C9: if a tool call of a batch fails, the Turn step returns carries a
\* ToolError for that call, the transcript holds a tool response with the
\* JSON error payload under the call's id, the remaining calls of the batch
\* were still executed, and the model was invoked again.
C9_FailureRecorded ==
    StepReturned =>
      \A d \in 1..Len(dispatch_log) :
        dispatch_log[d].failed =>
          /\ \E e \in 1..Len(turn.tool_errors) :
               turn.tool_errors[e].tool_call_id = dispatch_log[d].id
          /\ RespondsTo(dispatch_log[d].at + 1, dispatch_log[d].id)
          /\ IsErrorPayload(messages[dispatch_log[d].at + 1].content)
          /\ \A k \in 1..Len(resp_log) : \A j \in 1..Len(resp_log[k].resp.tool_calls) :
               resp_log[k].resp.tool_calls[j].id = dispatch_log[d].id =>
                 /\ BlockComplete(k)
                 /\ k < Len(invoke_log)

\* C10: a model response with empty content and no tool calls is a model
\* failure: step returns a Turn with fatalError set, and run returns a
\* diagnostic answer, not an empty one.
EmptyResponse == ~exc.raised /\ resp_log # <<>> /\ model_resp.tool_calls = <<>>
                   /\ ~Truthy(model_resp.content)
C10_EmptyResponseFatal ==
    /\ StepReturned /\ EmptyResponse => Truthy(turn.fatal_error)
    /\ pc = "returned" /\ step_calls >= 1 /\ EmptyResponse => answer # ""

\* ------------------------------------------------------------------- C11
\* The step that just returned failed fatally: its handler caught an
\* exception, or its budget ran out with calls pending.
FatalStep == StepReturned /\ (exc.raised \/ model_resp.tool_calls # <<>>)
FatalText == IF exc.raised THEN exc.msg ELSE MaxStepsError(host_max_steps)

\* C11: whenever step failed fatally, the very next thing run does is to
\* return a diagnostic string that carries the error text; it consults no
\* introspector gate and calls step no more.
C11_FatalReturnsAtOnce ==
    [][FatalStep => /\ pc' = "returned"
                    /\ answer' = "HostError: " \o FatalText
                    /\ intro_reply' = intro_reply
                    /\ step_calls' = step_calls]_vars

\* ------------------------------------------------------------------- C12
\* Positions of the assistant messages with non-empty content.
AssistantWithContent(msgs) ==
    {i \in 1..Len(msgs) : msgs[i].role = ASSISTANT /\ msgs[i].content \notin {NoneVal, ""}}

MostRecent(S) == CHOOSE i \in S : \A j \in S : j <= i

\* C12: when run uses up its iterations without returning, it returns the
\* content of the most recent assistant message with non-empty content, or
\* "No final answer." when there is none.
C12_ScanAnswer ==
    /\ [](pc = "c_loop" /\ iter >= ctrl_max_steps => ENABLED CtrlScan /\ ~ENABLED CtrlCallStep)
    /\ [][pc = "c_loop" /\ pc' = "returned" =>
            /\ iter >= ctrl_max_steps
            /\ answer' = IF AssistantWithContent(messages) = {} THEN "No final answer."
                          ELSE messages[MostRecent(AssistantWithContent(messages))].content]_vars

\* C12 witness: the scan returned the later of two different assistant
\* contents, passing over a younger assistant message without content.
C12_Witness ==
    /\ pc = "returned" /\ answer \notin {"No final answer.", ""}
    /\ \E i, j, k \in 1..Len(messages) :
         /\ i < j /\ j < k
         /\ messages[i].role = ASSISTANT /\ Truthy(messages[i].content)
         /\ messages[j].role = ASSISTANT /\ Truthy(messages[j].content)
         /\ messages[i].content # messages[j].content
         /\ messages[k].role = ASSISTANT /\ ~Truthy(messages[k].content)
         /\ answer = messages[j].content

\* ------------------------------------------------------------------- C13
\* The introspector failed: its model call raised, or its output is not a
\* JSON object (not JSON at all, or JSON of another type).
IntrospectorFailed(r) ==
    r.raises \/ json_loads(OrElse(r.content, "{}")).kind # "dict"

\* C13: introspector failures fail open and are never fatal: a failed
\* validate counts as valid = true (run returns the turn's content), a
\* failed plan as continue = false (run injects the synthesis instruction),
\* and after either gate run goes on, nothing is raised.
C13_FailOpen ==
    /\ \A r \in ValidateReplies : IntrospectorFailed(r) => validate(r) = Verdict(TRUE, Absent)
    /\ \A r \in PlanReplies : IntrospectorFailed(r) => plan_next(r) = Plan(FALSE, Absent)
    /\ StepReturned => ENABLED (CtrlFatal \/ CtrlDone \/ CtrlValidate \/ CtrlPlan)
    /\ intro_reply.gate = "validate" /\ IntrospectorFailed(intro_reply) =>
         /\ pc = "returned"
         /\ answer = OrElse(turn.content, "")
    /\ intro_reply.gate = "plan" /\ IntrospectorFailed(intro_reply) =>
         /\ pc \in {"c_loop", "returned"}
         /\ done /\ role = DEVELOPER /\ prompt = SynthesisPrompt

\* C13 witness: the planner's output was not JSON and run went on with the
\* synthesis instruction.
C13_Witness ==
    /\ intro_reply.gate = "plan" /\ ~intro_reply.raises /\ intro_reply.content = "not json"
    /\ pc = "c_loop" /\ done

\* ------------------------------------------------------------------- C14
\* The state in which a run on a freshly constructed agent enters its for
\* loop (Init followed by CtrlStart with every connect succeeding).
FreshStarted ==
    /\ messages = <<Message(SYSTEM, SystemPrompt, <<>>, NoneVal)>>
    /\ history_tool_calls = <<>>
    /\ is_initialized
    /\ \A i \in 1..Len(AgentClients) : connected[AgentClients[i]]
    /\ ~done /\ role = USER /\ prompt = Question /\ iter = 0
    /\ next_id = 1

\* run has got past host.reset() and not yet called host.step.
JustReset == pc = "c_loop" /\ step_calls = 0

\* C14: after reset the transcript is exactly the re-seeded system message
\* and the invocation log is empty, whatever the agent held before; a run
\* on a used agent enters its loop in the very state a run on a fresh agent
\* enters it, so that, given the same model responses, it writes the same
\* messages: the first message after the system message is the question
\* under the user role, and the transcript never has more messages than
\* this run wrote.
C14_ResetReplay ==
    /\ JustReset => FreshStarted
    /\ pc \notin {"start", "raised"} =>
         /\ messages[1] = Message(SYSTEM, SystemPrompt, <<>>, NoneVal)
         /\ Len(messages) >= 2 => messages[2] = Message(USER, Question, <<>>, NoneVal)
         /\ Cardinality({i \in 1..Len(messages) : messages[i].role = SYSTEM}) = 1
         /\ Len(history_tool_calls) <= Len(dispatch_log) + step_base_inv
         /\ Len(history_tool_calls) <= MaxIds

\* C14 witness: the replayed run has written an answer after a tool round,
\* on an agent that held an earlier transcript and invocation log.
C14_Witness ==
    /\ pc = "c_turn" /\ step_calls = 1 /\ turn.had_tools
    /\ Len(messages) = 5 /\ messages[5].role = ASSISTANT
    /\ Len(history_tool_calls) = 1

\* ------------------------------------------------------------------- C15
\* C15: every record of the invocation log was written for a tool that
\* exactly one client of the registry offered at the moment of the
\* invocation: none is written for a tool that no client, or more than one
\* client, offers.
C15_RecordHasOneServer ==
    /\ \A d \in 1..Len(dispatch_log) :
         dispatch_log[d].recorded => dispatch_log[d].offering = 1
    /\ \A k \in 1..Len(history_tool_calls) : history_tool_calls[k].server_name # NoneVal
    /\ Len(history_tool_calls) - step_base_inv
         = Cardinality({d \in 1..Len(dispatch_log) : dispatch_log[d].recorded})

\* ------------------------------------------------------------------- C16
\* C16: tool names are unique within a registry: at no time do two clients
\* of the registry both offer a tool of the same name.
C16_UniqueToolNames ==
    \A c1, c2 \in ClientSet :
      c1 # c2 => list_tools(connected, c1) \cap list_tools(connected, c2) = {}

\* ------------------------------------------------------------------- C18
NotFound(name) == Result(FALSE, "Tool " \o name \o " not found in any connected MCP client")

\* Some server of the registry is not connected: its spawn failed.
ServerDown == \E c \in ClientSet : ~connected[c]

\* C18: a tool server that fails to spawn does not abort the case: run is
\* not left by an exception, a step that ran with a server down returns a
\* Turn without fatalError unless the model or the step budget failed, and
\* every call to a tool that only servers that are down offer gets a failed
\* "not found" tool response in the transcript.
C18_ServerFailureNotFatal ==
    /\ pc # "raised"
    /\ StepReturned /\ ServerDown /\ ~FatalStep => turn.fatal_error = NoneVal
    /\ \A d \in 1..Len(dispatch_log) :
         dispatch_log[d].offering = 0 /\ dispatch_log[d].recorded =>
           /\ dispatch_log[d].failed
           /\ messages[dispatch_log[d].at + 1]
                = Message(TOOL, json_dumps(NotFound(dispatch_log[d].name)), <<>>,
                          dispatch_log[d].id)

\* ------------------------------------------------------------------- C17
\* The last call was a connect that failed at one of its stages.
ConnectFailed == client_call.op = "connect" /\ client_call.raised /\ client_call.stage # "none"

\* C17: if a stage of connect fails, the contexts opened so far are torn
\* down (session context first), the client ends up not connected, with no
\* session and no context, and the caller gets the connect error, chained
\* to the original exception.
C17_FailedConnectCleansUp ==
    ConnectFailed =>
      /\ ~client.connected
      /\ client.session = NoneVal
      /\ client.stdio_context = NoneVal /\ client.session_context = NoneVal
      /\ entered = {}
      /\ EnteredAt(client_call.stage) \subseteq SeqRange(client_call.exits)
      /\ client_call.exits \in {<<>>, <<"stdio">>, <<"session_ctx", "stdio">>}
      /\ client_call.cause # NoneVal
      /\ client_call.msg = "Failed to connect to MCP server 'fs': " \o client_call.cause

\* C17 witness: session.initialize() failed with both contexts open, and
\* an __aexit__ raised during the teardown.
C17_Witness ==
    /\ ConnectFailed /\ client_call.stage = "initialize"
    /\ client_call.exits = <<"session_ctx", "stdio">>
    /\ client_call.exit_errors # {}

\* ------------------------------------------------------------------- C19
\* The last call was a call_tool that returned.
ToolReturned == client_call.op = "call_tool" /\ ~client_call.raised

AllText(content) == \A i \in 1..Len(content) : content[i].kind = "text"

\* The shapes the statement allows for a response.
ClaimedShapes(result) ==
    LET sc == result.structuredContent
        content == result.content
    IN IF sc.t = "dict" /\ sc.fields # {}
       THEN {JDict({<<"result", DictGet(sc, "result", sc)>>, <<"success", JTrue>>})}
       ELSE IF Len(content) = 1 /\ AllText(content)
       THEN LET parsed == loads(content[1].text)
            IN IF ~parsed.ok
               THEN {JDict({<<"content", JAtom("str", content[1].text)>>,
                            <<"success", JTrue>>})}
               ELSE IF parsed.value.t = "list"
               THEN {JDict({<<"result", parsed.value>>, <<"success", JTrue>>})}
               ELSE IF parsed.value.t = "dict"
               THEN {IF HasKey(parsed.value, "success") THEN parsed.value
                     ELSE JDict(parsed.value.fields \cup {<<"success", JTrue>>})}
               ELSE {}
       ELSE IF Len(content) > 1 /\ AllText(content)
       THEN {JDict({<<"result", JList(ParsedItems(content))>>, <<"success", JTrue>>})}
       ELSE {NoResponse}

\* C19: call_tool maps every response to the one shape the statement gives
\* for it: structured content, one text block (JSON object, JSON array or
\* not JSON), several text blocks, and for anything else the
\* "No response from server" failure; every result has a success field.
C19_NormalizedShape ==
    ToolReturned =>
      /\ final_result \in ClaimedShapes(tool_response)
      /\ HasKey(final_result, "success")

\* ------------------------------------------------------------------- C20
\* C20: for every list of weighted scorers whose total weight is greater
\* than 0, the value ScoreFunction.score returns is at least 0 and at most 1.
C20_ScoreInUnitRange ==
    overall.returned /\ total_weight(weighted_scorers) > 0 =>
      /\ 0 <= overall.num
      /\ overall.num <= Scale * overall.den

\* ------------------------------------------------------------------- C21
\* C21: a failure of one scorer never leaves ScoreFunction.score: the
\* function raises nothing, and once it has returned every active scorer
\* has been run and has contributed a value.
C21_ScorerFailureContained ==
    /\ score_exc = NoneVal
    /\ overall.returned =>
         Len(scorer_values) = Len(active_scorers(weighted_scorers))

\* ------------------------------------------------------------------- C22
\* The count of a tool meets its constraint, exact replacing min and max.
Satisfies(spec, n) ==
    IF spec.has_exact THEN n = spec.exact
    ELSE (spec.has_min => n >= spec.min) /\ (spec.has_max => n <= spec.max)

FirstIndex(seq, tool) == CHOOSE i \in 1..Len(seq) : seq[i] = tool /\ \A j \in 1..(i - 1) : seq[j] # tool

\* The first occurrences of the configured tools are in key order.
FirstOccurrencesInKeyOrder(cfg, seq) ==
    \A i, j \in 1..Len(cfg) :
       i < j /\ Count(seq, cfg[i].tool) > 0 /\ Count(seq, cfg[j].tool) > 0
         => FirstIndex(seq, cfg[i].tool) < FirstIndex(seq, cfg[j].tool)

\* C22: ToolCallCountScorer returns 1.0 exactly when every configured
\* tool's count meets its constraint and, if order_matters, the first
\* occurrences of the configured tools are in key order; otherwise 0.0.
C22_CountScore ==
    count_score.returned =>
      count_score.value =
        IF /\ \A i \in 1..Len(calls) :
                Satisfies(calls[i].spec, Count(call_sequence, calls[i].tool))
           /\ order_matters => FirstOccurrencesInKeyOrder(calls, call_sequence)
        THEN Scale ELSE 0

\* ------------------------------------------------------------------- C23
RunEnded == run_pc \in {"returned", "raised"}

\* C23: however the run ends, Host.cleanup has been called and no client
\* of the registry is connected any more.
C23_CleanupOnEveryExit ==
    RunEnded => cleaned /\ \A c \in ClientSet : ~connected[c]

\* ------------------------------------------------------------------- C24
\* C24: an eval that cannot complete does not stop the run: its result has
\* score 0, a reason, and the transcript accumulated up to the failure;
\* the evals give one result each, in manifest order.
C24_FailedEvalResult ==
    /\ \A i \in 1..Len(results) :
          /\ results[i].eval_id = i
          /\ ~results[i].completed =>
                /\ results[i].score = 0
                /\ results[i].reasoning # NoneVal
                /\ results[i].conversation_len = results[i].transcript_len
    /\ run_pc = "returned" => Len(results) = num_evals

\* ------------------------------------------------------------------- C25
\* The messages the agent was asked under the developer role, in order.
RECURSIVE DeveloperMessages(_)
DeveloperMessages(cs) ==
    IF cs = <<>> THEN <<>>
    ELSE (IF Head(cs).role = DEVELOPER THEN <<Head(cs).message>> ELSE <<>>)
           \o DeveloperMessages(Tail(cs))

Occurrences(q, e) == Cardinality({i \in 1..Len(q) : q[i] = e})

\* C25: by the time prompt has returned, every decision continue = true
\* with a next_prompt was followed by an introspect_prompt event and by an
\* agent call with that next_prompt under the developer role; with no
\* introspector the agent was called exactly once, never as developer, and
\* its plain answer was returned.
C25_InlineNudge ==
    h_pc = "returned" =>
      /\ introspector_set =>
            /\ Occurrences(journal, "introspect_prompt") >= Len(nudges)
            /\ \A i \in 1..Len(nudges) :
                  \E k \in 1..Len(agent_calls) :
                     agent_calls[k] = [role |-> DEVELOPER, message |-> nudges[i]]
            /\ Len(DeveloperMessages(agent_calls)) >= Len(nudges)
      /\ ~introspector_set =>
            /\ Len(agent_calls) = 1
            /\ DeveloperMessages(agent_calls) = <<>>
            /\ ~latest_resp.has_tools
            /\ final_answer = OrElse(latest_resp.content, "No response generated.")

\* ------------------------------------------------------------------- C26
\* C26: a tools-free answer that ReasoningAgent.message returns has been
\* through the answer-validation gate: the inner provider was consulted at
\* least once in this message.
C26_AnswerValidated ==
    r_pc = "returned" /\ ~r_failed /\ ~response.has_tools => inner_calls >= 1

\* ------------------------------------------------------------------- C27
\* The plan the progress gate has just returned to run.
PlanReturned == plan_next(intro_reply')

\* C27: on a turn with tools, run takes the plan's next_prompt as the next
\* developer prompt only when the plan says continue and carries a
\* next_prompt that is set (done is left alone); in every other case
\* (continue false, next_prompt missing or null, failed plan) the next
\* prompt is the synthesis instruction under the developer role and done
\* becomes true.
C27_PlanOrSynthesize ==
    [][CtrlPlan =>
         /\ role' = DEVELOPER
         /\ IF PlanReturned.continue /\ PlanReturned.next_prompt \notin {Absent, NoneVal}
            THEN prompt' = PlanReturned.next_prompt /\ done' = done
            ELSE prompt' = SynthesisPrompt /\ done' = TRUE]_vars

\* ------------------------------------------------------------------- C28
\* run looks at a tools-free, non-fatal turn before any synthesis
\* instruction was injected.
ValidationDue ==
    pc = "c_turn" /\ ~Truthy(turn.fatal_error) /\ ~turn.had_tools /\ ~done

\* The verdict the validation gate has just returned to run.
VerdictReturned == validate(intro_reply')

\* C28: on a tools-free turn while done is false, run's one step out of
\* the turn is one call of validate; on a valid verdict run returns the
\* turn's content, otherwise the next prompt is, under the developer role,
\* the verdict's followup, or "Clarify and answer precisely." when the
\* verdict carries none.
C28_ValidateOrNudge ==
    [][ValidationDue /\ pc' # pc =>
         /\ intro_reply.gate = "none" /\ intro_reply'.gate = "validate"
         /\ IF VerdictReturned.valid
            THEN pc' = "returned" /\ answer' = OrElse(turn.content, "")
            ELSE /\ pc' = "c_loop" /\ role' = DEVELOPER
                 /\ prompt' = IF VerdictReturned.followup \in {Absent, NoneVal}
                              THEN "Clarify and answer precisely."
                              ELSE VerdictReturned.followup]_vars

\* ------------------------------------------------------------------- C29
\* run looks at a tools-free, non-fatal turn after it has injected the
\* synthesis instruction.
AcceptDue ==
    pc = "c_turn" /\ ~Truthy(turn.fatal_error) /\ ~turn.had_tools /\ done

\* C29: once done is true it stays true, and a tools-free turn is returned
\* as the answer in run's next step, with no call of validate: no
\* validation verdict is ever held while done is true, and no developer
\* prompt other than the synthesis instruction or a planner's next_prompt
\* follows the synthesis.
C29_AcceptAfterSynthesis ==
    /\ [](done => intro_reply.gate # "validate")
    /\ [][done => done']_vars
    /\ [][AcceptDue /\ pc' # pc =>
            /\ pc' = "returned"
            /\ answer' = OrElse(turn.content, "")
            /\ intro_reply' = intro_reply
            /\ UNCHANGED <<role, prompt, iter, messages>>]_vars

\* C29 witness: after the synthesis instruction the tools-free answer of
\* the next turn has been returned, no gate having run on it.
C29_Witness ==
    /\ pc = "returned" /\ done /\ ~turn.had_tools /\ ~Truthy(turn.fatal_error)
    /\ prompt = SynthesisPrompt /\ role = DEVELOPER
    /\ Truthy(turn.content) /\ answer = turn.content
    /\ intro_reply.gate = "none"

\* ------------------------------------------------------------------- C30
\* C30: every validate / plan_next call starts from the introspector's
\* own transcript reset to just its system message (what it held before,
\* invocation records included, is gone: after the call it holds the
\* system message, the gate's prompt and at most the reply), and no call
\* changes a message or an invocation record of the primary agent.
C30_OwnTranscriptReset ==
    /\ [](intro_result.gate # "none" =>
            /\ intro_start = <<Message(SYSTEM, IntrospectorPrompt, <<>>, NoneVal)>>
            /\ intro_history.tool_calls = <<>>
            /\ Len(intro_history.messages) \in {2, 3}
            /\ SubSeq(intro_history.messages, 1, 1) = intro_start
            /\ intro_history.messages[2] =
                  Message(USER, IF intro_result.gate = "validate" THEN ValidationPrompt
                                ELSE TracePrompt, <<>>, NoneVal)
            /\ Len(intro_history.messages) = 3 => intro_history.messages[3].role = ASSISTANT)
    /\ [][intro_calls' # intro_calls =>
            /\ messages' = messages
            /\ history_tool_calls' = history_tool_calls]_vars

\* C30 witness: a second gate was called on an introspector whose agent
\* held the first gate's exchange, while the primary agent holds a tool
\* round and its invocation record.
C30_Witness ==
    /\ intro_calls = 2 /\ intro_result.gate = "validate"
    /\ Len(intro_history.messages) = 3
    /\ Len(messages) >= 4 /\ history_tool_calls # <<>>

\* ------------------------------------------------------------------- C31
\* C31: ToolsAgent.message adds exactly one message to the transcript, the
\* prompt under the supplied role; it appends no assistant or tool message,
\* leaves the invocation log alone, and what it returns is the response
\* the model gave, as given.
C31_MessageAppendsPrompt ==
    [][pc = "h_message" /\ pc' # pc =>
         /\ messages' = Append(messages, Message(role, prompt, <<>>, NoneVal))
         /\ history_tool_calls' = history_tool_calls
         /\ pc' = "h_while" =>
               /\ model_resp' \in ModelResponses(next_id)
               /\ resp_log'[Len(resp_log')] = [resp |-> model_resp', at |-> Len(messages')]]_vars

\* C31 witness: message has just returned a response with content, sent
\* under the developer role on a transcript that holds a tool round.
C31_Witness ==
    /\ pc = "h_while" /\ counter = 0 /\ ~had_tools
    /\ role = DEVELOPER /\ Truthy(model_resp.content)
    /\ messages[Len(messages)] = Message(DEVELOPER, prompt, <<>>, NoneVal)
    /\ history_tool_calls # <<>>

\* ------------------------------------------------------------------- C32
IsPrefix(a, b) == Len(a) <= Len(b) /\ SubSeq(b, 1, Len(a)) = a

\* C32: between one reset and the next (run resets in its first step only)
\* every step changes the transcript by appending: the messages before the
\* step are a prefix of the messages after it, so none is modified or
\* removed; the system message is the first message and no other message
\* is a system message.
C32_AppendOnly ==
    /\ [][pc # "start" => IsPrefix(messages, messages')]_vars
    /\ [](\A i \in 1..Len(messages) : messages[i].role = SYSTEM <=> i = 1)

\* C32 witness: a second step has returned after a tool round, a plain
\* answer and a developer prompt were appended.
C32_Witness ==
    /\ pc = "c_turn" /\ step_calls = 2 /\ Len(messages) >= 7
    /\ \E i, j, k \in 2..Len(messages) :
         /\ messages[i].role = TOOL
         /\ messages[j].role = ASSISTANT /\ messages[j].tool_calls = <<>>
         /\ messages[k].role = DEVELOPER

\* ------------------------------------------------------------------- C33
\* The step is a call of disconnect.
DisconnectCalled == client_call'.op = "disconnect" /\ client_call'.n # client_call.n

\* C33: disconnect on a connected client exits the session context, then
\* the stdio context, raises nothing whichever of the two exits raise, and
\* leaves the client not connected, its session and both contexts cleared,
\* nothing left open; on a client that is not connected it makes no exit
\* and changes nothing.
C33_DisconnectTearsDown ==
    /\ [](client_call.op = "disconnect" =>
            /\ ~client_call.raised
            /\ ~client.connected
            /\ client.session = NoneVal
            /\ client.stdio_context = NoneVal /\ client.session_context = NoneVal
            /\ entered = {})
    /\ [][DisconnectCalled =>
            IF client.connected
            THEN client_call'.exits = <<"session_ctx", "stdio">>
            ELSE client_call'.exits = <<>> /\ client' = client /\ entered' = entered]_vars

\* C33 witness: disconnect on a connected client, both exits raised.
C33_Witness ==
    /\ client_call.op = "disconnect"
    /\ client_call.exits = <<"session_ctx", "stdio">>
    /\ client_call.exit_errors = {"session_ctx", "stdio"}
    /\ ~client.connected

\* ------------------------------------------------------------------- C34
\* C34: whoever invoked the tool, if the client's result has a content
\* that begins, whatever the case of its letters, with "error", then the
\* result recorded in the invocation log and the result shown to the
\* model are {success: false, error: content}, and the call is counted as
\* a failure with that content as its error.
C34_ErrorContentIsFailure ==
    /\ tool_path # "none"
    /\ client_result.has_content
    /\ startswith(lower(client_result.content), <<"e", "r", "r", "o", "r">>)
    => /\ recorded = FailureResult(client_result.content)
       /\ shown = FailureResult(client_result.content)
       /\ counted = Counted(TRUE, client_result.content)

\* ------------------------------------------------------------------- C35
\* The tool-response messages that carry the id.
ResponsesTo(id) ==
    {j \in 1..Len(messages) : messages[j].role = TOOL /\ messages[j].tool_call_id = id}

\* C35: whenever step has returned (normally, with the budget used up, or
\* after a failure) every tool-call id an assistant message of the
\* transcript carries has exactly one tool-response message; the response
\* whose calls were pending when the budget ran out is not in the
\* transcript.
C35_EveryCallAnswered ==
    StepReturned =>
      /\ \A i \in 1..Len(messages) :
           messages[i].role = ASSISTANT =>
             \A k \in 1..Len(messages[i].tool_calls) :
               Cardinality(ResponsesTo(messages[i].tool_calls[k].id)) = 1
      /\ turn.fatal_error = MaxStepsError(host_max_steps) =>
           \A k \in 1..Len(model_resp.tool_calls) :
             /\ ResponsesTo(model_resp.tool_calls[k].id) = {}
             /\ \A i \in 1..Len(messages) :
                  \A n \in 1..Len(messages[i].tool_calls) :
                    messages[i].tool_calls[n].id # model_resp.tool_calls[k].id

\* C35 witness: the budget ran out with a call pending, after a round
\* whose call could not be resolved.
C35_Witness ==
    /\ StepReturned /\ turn.fatal_error = MaxStepsError(host_max_steps)
    /\ turn.had_tools /\ model_resp.tool_calls # <<>>
    /\ \E i \in 1..Len(messages) : messages[i].tool_calls # <<>>
    /\ \E d \in 1..Len(dispatch_log) : ~dispatch_log[d].recorded

\* C36: when ReasoningAgent.message returns, every tool-call id of an
\* assistant message with tool calls (original batch or retry) has exactly
\* one tool response, and the responses to one assistant message's calls
\* follow it with no other assistant message in between.
RoundResponsesTo(id) ==
    {j \in 1..Len(t_history) :
        t_history[j].role = TOOL /\ t_history[j].tool_call_id = id}
C36_RoundCallsAnswered ==
    t_pc = "returned" =>
      \A i \in 1..Len(t_history) :
        \A k \in 1..Len(t_history[i].tool_calls) :
          /\ Cardinality(RoundResponsesTo(t_history[i].tool_calls[k])) = 1
          /\ \A j \in RoundResponsesTo(t_history[i].tool_calls[k]) :
               /\ j > i
               /\ \A m \in (i + 1)..(j - 1) : t_history[m].role # ASSISTANT

\* C39: for one tool call the model requested, tools are invoked at most
\* 1 + max_retries_per_call times and never again after a successful
\* result; a message runs at most max_steps rounds of tool execution, and
\* it terminates.
RetriesBounded ==
    /\ Len(t_invoked) <= 1 + t_max_retries
    /\ \A i \in 1..(Len(t_invoked) - 1) : ~t_invoked[i]
    /\ t_steps <= t_max_steps
C39_BoundedRetriesAndRounds == []RetriesBounded /\ <>(t_pc = "returned")
C39_Witness ==
    /\ t_pc = "returned"
    /\ t_max_retries = MaxRetries /\ Len(t_invoked) = 1 + MaxRetries
    /\ t_invoked[Len(t_invoked)]
    /\ t_max_steps = MaxRounds /\ t_steps = MaxRounds

\* C37: a Turn that step returns with had_tools false means that the step
\* appended no assistant message with tool calls, no tool response and no
\* invocation record (a Turn with a fatal error included).
C37_NoToolsNoTrace ==
    (StepReturned /\ ~turn.had_tools) =>
      /\ \A i \in (step_base + 1)..Len(messages) :
           /\ messages[i].role # TOOL
           /\ ~(messages[i].role = ASSISTANT /\ messages[i].tool_calls # <<>>)
      /\ Len(history_tool_calls) = step_base_inv

\* C38: the first prompt run sends to the Host is the question under the
\* user role; every later prompt is a non-empty string other than the
\* question, sent under the developer role.
C38_QuestionThenDeveloperPrompts ==
    [][CtrlCallStep =>
         IF step_calls = 0
         THEN role = USER /\ prompt = Question
         ELSE role = DEVELOPER /\ prompt \notin {NoneVal, Absent, "", Question}]_vars

\* C40: a connected McpClient has its session and both contexts set; the
\* client is not connected after construction, after a connect that raised
\* and after disconnect; connect on a connected client returns without
\* raising, entering a context or changing the client; call_tool on a
\* client that is not connected raises and leaves the client as it was.
ConnectedImpliesSet ==
    client.connected =>
      /\ client.session # NoneVal
      /\ client.stdio_context # NoneVal
      /\ client.session_context # NoneVal
====
